---- MODULE Spec2Model ----
(***************************************************************************)
(* Model of the financial calculation engine of the portfolio manager:     *)
(*   - the Lot Ledger replay of FinancialCalculator (core/calculator.py)   *)
(*     and of DatabaseManager._calculate_position_cost (db_manager.py),    *)
(*   - the realized gain calculator (calculate_realized_pv_fifo),          *)
(*   - the Tax Engine (core/tax_calculator.py).                            *)
(*                                                                         *)
(* Python floats are modelled as exact rationals <<n, d>> with d > 0 in    *)
(* lowest terms, so two equal amounts are equal as TLA+ values.            *)
(***************************************************************************)
EXTENDS Integers, Sequences, FiniteSets, TLC

(***************************************************************************)
(* Bounds of the model.                                                    *)
(***************************************************************************)
MaxHistory == 3
MaxDate == 2
MaxAmount == 10

(***************************************************************************)
(* Rational arithmetic (the float operators +, -, *, /, <, <=, min, max,   *)
(* abs and sum used by the source).                                        *)
(***************************************************************************)
Abs(x) == IF x < 0 THEN -x ELSE x

RECURSIVE GCD(_, _)
GCD(a, b) == IF b = 0 THEN a ELSE GCD(b, a % b)

Rat(n, d) ==
    LET s == IF d < 0 THEN -1 ELSE 1
        g == GCD(Abs(n), Abs(d))
    IN  <<(s * n) \div g, (s * d) \div g>>

R(n) == <<n, 1>>
Zero == R(0)
RAdd(a, b) == Rat(a[1] * b[2] + b[1] * a[2], a[2] * b[2])
RSub(a, b) == Rat(a[1] * b[2] - b[1] * a[2], a[2] * b[2])
RMul(a, b) == Rat(a[1] * b[1], a[2] * b[2])
RDiv(a, b) == Rat(a[1] * b[2], a[2] * b[1])
RLt(a, b) == a[1] * b[2] < b[1] * a[2]
RLe(a, b) == a[1] * b[2] <= b[1] * a[2]
RMin(a, b) == IF RLe(a, b) THEN a ELSE b
RMax(a, b) == IF RLe(b, a) THEN a ELSE b
RAbs(a) == <<Abs(a[1]), a[2]>>

RECURSIVE RSum(_)
RSum(s) == IF s = <<>> THEN Zero ELSE RAdd(Head(s), RSum(Tail(s)))

Quantities(s) == [i \in 1..Len(s) |-> s[i].quantity]
TotalCosts(s) == [i \in 1..Len(s) |-> s[i].total_cost]
Costs(s) == [i \in 1..Len(s) |-> s[i].cost]

(***************************************************************************)
(* Transaction (database/models.py).  __post_init__ computes total_cost    *)
(* only when the value passed is 0.                                        *)
(***************************************************************************)
Transaction(id, ttype, quantity, price, date, total_cost, fees) ==
    [id |-> id, transaction_type |-> ttype, quantity |-> quantity,
     price_per_share |-> price, transaction_date |-> date, fees |-> fees,
     total_cost |->
        IF total_cost = Zero
        THEN IF ttype = "ACHAT"
             THEN RAdd(RMul(quantity, price), fees)
             ELSE RSub(RMul(quantity, price), fees)
        ELSE total_cost]

(***************************************************************************)
(* The orders a caller can place: type, quantity, price, total_cost passed *)
(* to the constructor (0 = left to __post_init__), fees.  The first three  *)
(* are the orders of test_calculator.                                      *)
(***************************************************************************)
Orders ==
    { <<"ACHAT", R(10), R(150), R(1501), R(1)>>,
      <<"ACHAT", R(5),  R(160), R(801),  R(1)>>,
      <<"VENTE", R(12), R(180), R(2159), R(1)>>,
      <<"VENTE", R(5),  R(170), Zero,    R(1)>>,
      <<"VENTE", R(3),  R(140), Zero,    R(1)>> }

Dates == 1..MaxDate

(***************************************************************************)
(* sorted(transactions, key=lambda t: t.transaction_date): a stable sort   *)
(* on the date alone.                                                      *)
(***************************************************************************)
RECURSIVE InsertByDate(_, _)
InsertByDate(s, tx) ==
    IF s = <<>> THEN <<tx>>
    ELSE IF s[Len(s)].transaction_date <= tx.transaction_date
         THEN Append(s, tx)
         ELSE Append(InsertByDate(SubSeq(s, 1, Len(s) - 1), tx), s[Len(s)])

\* variant: the list is processed as passed, without sorting it
SortedByDate_as_passed(s) == s

RECURSIVE SortedByDate(_)
SortedByDate(s) ==
    IF s = <<>> THEN <<>>
    ELSE InsertByDate(SortedByDate(SubSeq(s, 1, Len(s) - 1)), s[Len(s)])

(***************************************************************************)
(* FinancialCalculator.calculate_realized_pv_fifo                          *)
(***************************************************************************)
\* variant: the unit cost of a lot is its price per share, fees left out
RECURSIVE FifoLoop_price_only(_, _, _)
FifoLoop_price_only(buy_transactions, quantity_to_sell, acc) ==
    IF buy_transactions = <<>> THEN acc
    ELSE IF RLe(quantity_to_sell, acc.quantity_sold) THEN acc
    ELSE
        LET buy_tx == Head(buy_transactions)
            quantity_from_this_buy ==
                RMin(buy_tx.quantity, RSub(quantity_to_sell, acc.quantity_sold))
            cost_per_share == buy_tx.price_per_share
        IN  FifoLoop_price_only(Tail(buy_transactions), quantity_to_sell,
                [total_buy_cost |->
                    RAdd(acc.total_buy_cost, RMul(quantity_from_this_buy, cost_per_share)),
                 quantity_sold |-> RAdd(acc.quantity_sold, quantity_from_this_buy),
                 transactions_used |-> Append(acc.transactions_used, buy_tx.id)])

RECURSIVE FifoLoop(_, _, _)
FifoLoop(buy_transactions, quantity_to_sell, acc) ==
    IF buy_transactions = <<>> THEN acc
    ELSE IF RLe(quantity_to_sell, acc.quantity_sold) THEN acc
    ELSE
        LET buy_tx == Head(buy_transactions)
            quantity_from_this_buy ==
                RMin(buy_tx.quantity, RSub(quantity_to_sell, acc.quantity_sold))
            cost_per_share == RDiv(buy_tx.total_cost, buy_tx.quantity)
        IN  FifoLoop(Tail(buy_transactions), quantity_to_sell,
                [total_buy_cost |->
                    RAdd(acc.total_buy_cost, RMul(quantity_from_this_buy, cost_per_share)),
                 quantity_sold |-> RAdd(acc.quantity_sold, quantity_from_this_buy),
                 transactions_used |-> Append(acc.transactions_used, buy_tx.id)])

\* variant: quantity_sold reports the quantity of the sale, not the quantity consumed
calculate_realized_pv_fifo_sale_quantity(buy_transactions, sell_transaction) ==
    LET acc == FifoLoop(buy_transactions, sell_transaction.quantity,
                   [total_buy_cost |-> Zero, quantity_sold |-> Zero,
                    transactions_used |-> <<>>])
        quantity_sold == sell_transaction.quantity
        average_buy_price ==
            IF RLt(Zero, quantity_sold)
            THEN RDiv(acc.total_buy_cost, quantity_sold) ELSE Zero
        total_pv == RSub(sell_transaction.total_cost, acc.total_buy_cost)
        pv_percent ==
            IF RLt(Zero, acc.total_buy_cost)
            THEN RMul(RDiv(total_pv, acc.total_buy_cost), R(100)) ELSE Zero
    IN  [quantity_sold |-> quantity_sold,
         sell_price |-> sell_transaction.price_per_share,
         average_buy_price |-> average_buy_price,
         total_gain_loss |-> total_pv,
         gain_loss_percent |-> pv_percent,
         sell_date |-> sell_transaction.transaction_date,
         buy_transactions_used |-> acc.transactions_used]

calculate_realized_pv_fifo(buy_transactions, sell_transaction) ==
    LET acc == FifoLoop(buy_transactions, sell_transaction.quantity,
                   [total_buy_cost |-> Zero, quantity_sold |-> Zero,
                    transactions_used |-> <<>>])
        average_buy_price ==
            IF RLt(Zero, acc.quantity_sold)
            THEN RDiv(acc.total_buy_cost, acc.quantity_sold) ELSE Zero
        sell_amount == sell_transaction.total_cost
        total_pv == RSub(sell_amount, acc.total_buy_cost)
        pv_percent ==
            IF RLt(Zero, acc.total_buy_cost)
            THEN RMul(RDiv(total_pv, acc.total_buy_cost), R(100)) ELSE Zero
    IN  [quantity_sold |-> acc.quantity_sold,
         sell_price |-> sell_transaction.price_per_share,
         average_buy_price |-> average_buy_price,
         total_gain_loss |-> total_pv,
         gain_loss_percent |-> pv_percent,
         sell_date |-> sell_transaction.transaction_date,
         buy_transactions_used |-> acc.transactions_used]

(***************************************************************************)
(* FinancialCalculator._update_remaining_buys                              *)
(***************************************************************************)
\* variant: the partial branch does not reset quantity_to_remove, so the sale
\* goes on taking from the lots behind the one it stopped in
RECURSIVE _update_remaining_buys_keeps_removing(_, _)
_update_remaining_buys_keeps_removing(buy_transactions, quantity_to_remove) ==
    IF buy_transactions = <<>> THEN <<>>
    ELSE
        LET buy_tx == Head(buy_transactions)
            rest == Tail(buy_transactions)
        IN  IF RLe(quantity_to_remove, Zero)
            THEN <<buy_tx>> \o _update_remaining_buys_keeps_removing(rest, quantity_to_remove)
            ELSE IF RLt(quantity_to_remove, buy_tx.quantity)
            THEN LET left == RSub(buy_tx.quantity, quantity_to_remove)
                     updated_tx ==
                        Transaction(buy_tx.id, buy_tx.transaction_type, left,
                            buy_tx.price_per_share, buy_tx.transaction_date,
                            RDiv(RMul(buy_tx.total_cost, left), buy_tx.quantity),
                            RDiv(RMul(buy_tx.fees, left), buy_tx.quantity))
                 IN  <<updated_tx>> \o _update_remaining_buys_keeps_removing(rest, quantity_to_remove)
            ELSE _update_remaining_buys_keeps_removing(rest, RSub(quantity_to_remove, buy_tx.quantity))

\* variant: the partly consumed lot keeps the total_cost of the whole lot
RECURSIVE _update_remaining_buys_full_cost(_, _)
_update_remaining_buys_full_cost(buy_transactions, quantity_to_remove) ==
    IF buy_transactions = <<>> THEN <<>>
    ELSE
        LET buy_tx == Head(buy_transactions)
            rest == Tail(buy_transactions)
        IN  IF RLe(quantity_to_remove, Zero)
            THEN <<buy_tx>> \o _update_remaining_buys_full_cost(rest, quantity_to_remove)
            ELSE IF RLt(quantity_to_remove, buy_tx.quantity)
            THEN LET left == RSub(buy_tx.quantity, quantity_to_remove)
                     updated_tx ==
                        Transaction(buy_tx.id, buy_tx.transaction_type, left,
                            buy_tx.price_per_share, buy_tx.transaction_date,
                            buy_tx.total_cost,
                            RDiv(RMul(buy_tx.fees, left), buy_tx.quantity))
                 IN  <<updated_tx>> \o _update_remaining_buys_full_cost(rest, Zero)
            ELSE _update_remaining_buys_full_cost(rest, RSub(quantity_to_remove, buy_tx.quantity))

RECURSIVE _update_remaining_buys(_, _)
_update_remaining_buys(buy_transactions, quantity_to_remove) ==
    IF buy_transactions = <<>> THEN <<>>
    ELSE
        LET buy_tx == Head(buy_transactions)
            rest == Tail(buy_transactions)
        IN  IF RLe(quantity_to_remove, Zero)
            THEN <<buy_tx>> \o _update_remaining_buys(rest, quantity_to_remove)
            ELSE IF RLt(quantity_to_remove, buy_tx.quantity)
            THEN LET left == RSub(buy_tx.quantity, quantity_to_remove)
                     updated_tx ==
                        Transaction(buy_tx.id, buy_tx.transaction_type, left,
                            buy_tx.price_per_share, buy_tx.transaction_date,
                            RDiv(RMul(buy_tx.total_cost, left), buy_tx.quantity),
                            RDiv(RMul(buy_tx.fees, left), buy_tx.quantity))
                 IN  <<updated_tx>> \o _update_remaining_buys(rest, Zero)
            ELSE _update_remaining_buys(rest, RSub(quantity_to_remove, buy_tx.quantity))

(***************************************************************************)
(* State.                                                                  *)
(***************************************************************************)
VARIABLES
    history,         \* the transactions of the ticker, in insertion (id) order
    job,             \* the function being executed, or "idle"
    sorted_tx,       \* the list the running replay iterates over
    idx,             \* number of transactions of sorted_tx already processed
    remaining_buys,  \* calculator: open lots (Transaction objects)
    realized_pvs,    \* calculator: RealizedGainLoss results so far
    lots,            \* db_manager: open lots {quantity, cost}
    result,          \* value returned by the last call on the current history
    tax_call,        \* last Tax Engine call: operation and arguments
    tax_result,      \* what that call returned (or that it raised)
    transactions_table, \* the transactions table of the database, all tickers
    portfolio_call,  \* last call of the positions and valuation layer
    portfolio_result \* what that call returned (or that it raised)

ledgerVars == <<history, job, sorted_tx, idx, remaining_buys, realized_pvs, lots, result>>
taxVars == <<tax_call, tax_result>>
portfolioVars == <<transactions_table, portfolio_call, portfolio_result>>
vars == <<history, job, sorted_tx, idx, remaining_buys, realized_pvs, lots, result,
          tax_call, tax_result, transactions_table, portfolio_call, portfolio_result>>

None == [none |-> TRUE]

Init ==
    /\ history = <<>>
    /\ job = "idle"
    /\ sorted_tx = <<>>
    /\ idx = 0
    /\ remaining_buys = <<>>
    /\ realized_pvs = <<>>
    /\ lots = <<>>
    /\ result = None
    /\ tax_call = None
    /\ tax_result = None
    /\ transactions_table = <<>>
    /\ portfolio_call = None
    /\ portfolio_result = None

(***************************************************************************)
(* DatabaseManager.add_transaction: the row gets the next id.              *)
(***************************************************************************)
AddTransaction ==
    /\ job = "idle"
    /\ Len(history) < MaxHistory
    /\ \E o \in Orders, d \in Dates :
          history' = Append(history,
              Transaction(Len(history) + 1, o[1], o[2], o[3], d, o[4], o[5]))
    /\ result' = None
    /\ UNCHANGED <<job, sorted_tx, idx, remaining_buys, realized_pvs, lots>>
    /\ UNCHANGED taxVars
    /\ UNCHANGED portfolioVars

(***************************************************************************)
(* FinancialCalculator.calculate_all_realized_pv, one loop iteration per   *)
(* step.  The locals of a call are gone when it returns.                   *)
(***************************************************************************)
StartAllRealizedPv ==
    /\ job = "idle"
    /\ job' = "all_realized_pv"
    /\ sorted_tx' = SortedByDate(history)
    /\ idx' = 0
    /\ remaining_buys' = <<>>
    /\ realized_pvs' = <<>>
    /\ UNCHANGED <<history, lots, result>>
    /\ UNCHANGED taxVars
    /\ UNCHANGED portfolioVars

\* variant: a lot sold in part is reduced in place, so the Transaction object of
\* the caller's list carries the reduced quantity and cost after the call
StepAllRealizedPv_in_place ==
    /\ job = "all_realized_pv"
    /\ idx < Len(sorted_tx)
    /\ LET tx == sorted_tx[idx + 1]
           updated == _update_remaining_buys(remaining_buys, tx.quantity)
           shared(s) == [i \in 1..Len(s) |->
                           IF \E k \in 1..Len(updated) : updated[k].id = s[i].id
                           THEN updated[CHOOSE k \in 1..Len(updated) :
                                            updated[k].id = s[i].id]
                           ELSE s[i]]
       IN
        IF tx.transaction_type = "ACHAT"
        THEN /\ remaining_buys' = Append(remaining_buys, tx)
             /\ UNCHANGED <<realized_pvs, history, sorted_tx>>
        ELSE /\ realized_pvs' =
                    Append(realized_pvs, calculate_realized_pv_fifo(remaining_buys, tx))
             /\ remaining_buys' = updated
             /\ history' = shared(history)
             /\ sorted_tx' = shared(sorted_tx)
    /\ idx' = idx + 1
    /\ UNCHANGED <<job, lots, result>>
    /\ UNCHANGED taxVars
    /\ UNCHANGED portfolioVars

StepAllRealizedPv ==
    /\ job = "all_realized_pv"
    /\ idx < Len(sorted_tx)
    /\ LET tx == sorted_tx[idx + 1] IN
        IF tx.transaction_type = "ACHAT"
        THEN /\ remaining_buys' = Append(remaining_buys, tx)
             /\ UNCHANGED realized_pvs
        ELSE /\ realized_pvs' =
                    Append(realized_pvs, calculate_realized_pv_fifo(remaining_buys, tx))
             /\ remaining_buys' = _update_remaining_buys(remaining_buys, tx.quantity)
    /\ idx' = idx + 1
    /\ UNCHANGED <<history, job, sorted_tx, lots, result>>
    /\ UNCHANGED taxVars
    /\ UNCHANGED portfolioVars

ReturnAllRealizedPv ==
    /\ job = "all_realized_pv"
    /\ idx = Len(sorted_tx)
    /\ result' = [call |-> "calculate_all_realized_pv", value |-> realized_pvs]
    /\ job' = "idle"
    /\ sorted_tx' = <<>>
    /\ idx' = 0
    /\ remaining_buys' = <<>>
    /\ realized_pvs' = <<>>
    /\ UNCHANGED <<history, lots>>
    /\ UNCHANGED taxVars
    /\ UNCHANGED portfolioVars

(***************************************************************************)
(* FinancialCalculator.calculate_average_buy_price                         *)
(***************************************************************************)
StartAverageBuyPrice ==
    /\ job = "idle"
    /\ job' = "average_buy_price"
    /\ sorted_tx' = SortedByDate(history)
    /\ idx' = 0
    /\ remaining_buys' = <<>>
    /\ UNCHANGED <<history, realized_pvs, lots, result>>
    /\ UNCHANGED taxVars
    /\ UNCHANGED portfolioVars

StepAverageBuyPrice ==
    /\ job = "average_buy_price"
    /\ idx < Len(sorted_tx)
    /\ LET tx == sorted_tx[idx + 1] IN
        remaining_buys' =
            IF tx.transaction_type = "ACHAT"
            THEN Append(remaining_buys, tx)
            ELSE _update_remaining_buys(remaining_buys, tx.quantity)
    /\ idx' = idx + 1
    /\ UNCHANGED <<history, job, sorted_tx, realized_pvs, lots, result>>
    /\ UNCHANGED taxVars
    /\ UNCHANGED portfolioVars

ReturnAverageBuyPrice ==
    /\ job = "average_buy_price"
    /\ idx = Len(sorted_tx)
    /\ LET total_cost == RSum(TotalCosts(remaining_buys))
           total_quantity == RSum(Quantities(remaining_buys))
       IN  result' = [call |-> "calculate_average_buy_price",
                      value |-> IF RLe(total_quantity, Zero) THEN Zero
                                ELSE RDiv(total_cost, total_quantity)]
    /\ job' = "idle"
    /\ sorted_tx' = <<>>
    /\ idx' = 0
    /\ remaining_buys' = <<>>
    /\ UNCHANGED <<history, realized_pvs, lots>>
    /\ UNCHANGED taxVars
    /\ UNCHANGED portfolioVars

(***************************************************************************)
(* DatabaseManager.get_transactions_by_ticker:                             *)
(* ORDER BY transaction_date ASC, id ASC.                                  *)
(***************************************************************************)
RECURSIVE InsertByDateId(_, _)
InsertByDateId(s, tx) ==
    IF s = <<>> THEN <<tx>>
    ELSE LET last == s[Len(s)] IN
         IF \/ last.transaction_date < tx.transaction_date
            \/ /\ last.transaction_date = tx.transaction_date
               /\ last.id <= tx.id
         THEN Append(s, tx)
         ELSE Append(InsertByDateId(SubSeq(s, 1, Len(s) - 1), tx), last)

RECURSIVE get_transactions_by_ticker(_)
get_transactions_by_ticker(rows) ==
    IF rows = <<>> THEN <<>>
    ELSE InsertByDateId(get_transactions_by_ticker(SubSeq(rows, 1, Len(rows) - 1)),
                        rows[Len(rows)])

(***************************************************************************)
(* DatabaseManager._calculate_position_cost.  The test                     *)
(* lot['quantity'] <= quantity_to_sell + 1e-9 is evaluated on the          *)
(* difference n/d of the two quantities: n/d <= 1/10^9.                    *)
(***************************************************************************)
ToleranceDen == 1000000000

\* variant: a lot is removed only when it is smaller than the quantity to sell,
\* so a lot sold exactly stays in the list with quantity 0
WithinTolerance_strictly_smaller(lot_quantity, quantity_to_sell) ==
    RLt(lot_quantity, quantity_to_sell)

WithinTolerance(lot_quantity, quantity_to_sell) ==
    LET diff == RSub(lot_quantity, quantity_to_sell)
    IN  \/ diff[1] <= 0
        \/ diff[1] <= diff[2] \div ToleranceDen

\* variant: a lot is never removed, the quantity sold is subtracted from the
\* front lot whatever its size
SellFromLots_no_removal(ls, quantity_to_sell) ==
    IF ~(RLt(Zero, quantity_to_sell) /\ ls # <<>>) THEN ls
    ELSE LET lot == ls[1]
             proportion == RDiv(quantity_to_sell, lot.quantity)
             shrunk == [quantity |-> RSub(lot.quantity, quantity_to_sell),
                        cost |-> RSub(lot.cost, RMul(lot.cost, proportion))]
         IN  <<shrunk>> \o Tail(ls)

RECURSIVE SellFromLots(_, _)
SellFromLots(ls, quantity_to_sell) ==
    IF ~(RLt(Zero, quantity_to_sell) /\ ls # <<>>) THEN ls
    ELSE LET lot == ls[1] IN
         IF WithinTolerance(lot.quantity, quantity_to_sell)
         THEN SellFromLots(Tail(ls), RSub(quantity_to_sell, lot.quantity))
         ELSE LET proportion == RDiv(quantity_to_sell, lot.quantity)
                  shrunk == [quantity |-> RSub(lot.quantity, quantity_to_sell),
                             cost |-> RSub(lot.cost, RMul(lot.cost, proportion))]
              IN  SellFromLots(<<shrunk>> \o Tail(ls), Zero)

StartPositionCost ==
    /\ job = "idle"
    /\ job' = "position_cost"
    /\ sorted_tx' = get_transactions_by_ticker(history)
    /\ idx' = 0
    /\ lots' = <<>>
    /\ UNCHANGED <<history, remaining_buys, realized_pvs, result>>
    /\ UNCHANGED taxVars
    /\ UNCHANGED portfolioVars

StepPositionCost ==
    /\ job = "position_cost"
    /\ idx < Len(sorted_tx)
    /\ LET tx == sorted_tx[idx + 1] IN
        lots' =
            IF tx.transaction_type = "ACHAT"
            THEN Append(lots, [quantity |-> tx.quantity, cost |-> tx.total_cost])
            ELSE SellFromLots(lots, tx.quantity)
    /\ idx' = idx + 1
    /\ UNCHANGED <<history, job, sorted_tx, remaining_buys, realized_pvs, result>>
    /\ UNCHANGED taxVars
    /\ UNCHANGED portfolioVars

ReturnPositionCost ==
    /\ job = "position_cost"
    /\ idx = Len(sorted_tx)
    /\ result' = [call |-> "_calculate_position_cost",
                   value |-> <<RSum(Quantities(lots)), RSum(Costs(lots))>>]
    /\ job' = "idle"
    /\ sorted_tx' = <<>>
    /\ idx' = 0
    /\ lots' = <<>>
    /\ UNCHANGED <<history, remaining_buys, realized_pvs>>
    /\ UNCHANGED taxVars
    /\ UNCHANGED portfolioVars

Next ==
    \/ AddTransaction
    \/ StartAllRealizedPv
    \/ StepAllRealizedPv
    \/ ReturnAllRealizedPv
    \/ StartAverageBuyPrice
    \/ StepAverageBuyPrice
    \/ ReturnAverageBuyPrice
    \/ StartPositionCost
    \/ StepPositionCost
    \/ ReturnPositionCost

Spec == Init /\ [][Next]_vars

(***************************************************************************)
(* TransactionsTab._calculate_realized_pnl: the realized gain shown in the *)
(* row of a sale.  The ticker's transactions are read, sorted by           *)
(* (transaction_date, id), and replayed up to the row whose id is the      *)
(* sale's; the loop ending without it raises ValueError.                   *)
(***************************************************************************)
ValueError == [raised |-> TRUE, exception |-> "ValueError"]

RECURSIVE SortedByDateId(_)
SortedByDateId(transactions) ==
    IF transactions = <<>> THEN <<>>
    ELSE InsertByDateId(SortedByDateId(SubSeq(transactions, 1, Len(transactions) - 1)),
                        transactions[Len(transactions)])

\* variant: a sale that is not found yields a gain of 0 instead of an exception
RECURSIVE RealizedPnlLoop_silent_zero(_, _, _, _)
RealizedPnlLoop_silent_zero(transactions, k, buys, sale_tx) ==
    IF k > Len(transactions)
    THEN [raised |-> FALSE, total_gain_loss |-> Zero, gain_loss_percent |-> Zero]
    ELSE LET tx == transactions[k] IN
         IF tx.transaction_type = "ACHAT"
         THEN RealizedPnlLoop_silent_zero(transactions, k + 1, Append(buys, tx), sale_tx)
         ELSE IF tx.id = sale_tx.id
              THEN LET r == calculate_realized_pv_fifo(buys, sale_tx)
                   IN  [raised |-> FALSE,
                        total_gain_loss |-> r.total_gain_loss,
                        gain_loss_percent |-> r.gain_loss_percent]
              ELSE RealizedPnlLoop_silent_zero(transactions, k + 1,
                       _update_remaining_buys(buys, tx.quantity), sale_tx)

RECURSIVE RealizedPnlLoop(_, _, _, _)
RealizedPnlLoop(transactions, k, buys, sale_tx) ==
    IF k > Len(transactions)
    THEN ValueError
    ELSE LET tx == transactions[k] IN
         IF tx.transaction_type = "ACHAT"
         THEN RealizedPnlLoop(transactions, k + 1, Append(buys, tx), sale_tx)
         ELSE IF tx.id = sale_tx.id
              THEN LET r == calculate_realized_pv_fifo(buys, sale_tx)
                   IN  [raised |-> FALSE,
                        total_gain_loss |-> r.total_gain_loss,
                        gain_loss_percent |-> r.gain_loss_percent]
              ELSE RealizedPnlLoop(transactions, k + 1,
                       _update_remaining_buys(buys, tx.quantity), sale_tx)

_calculate_realized_pnl(rows, sale_tx) ==
    LET transactions == SortedByDateId(get_transactions_by_ticker(rows))
    IN  RealizedPnlLoop(transactions, 1, <<>>, sale_tx)

\* the rows the tab may hold: the rows of the ticker, and the row of a sale
\* that is no longer (or not yet) in the table
SaleRows ==
    {history[i] : i \in 1..Len(history)} \cup
    {Transaction(Len(history) + 1, o[1], o[2], o[3], d, o[4], o[5]) :
        o \in {x \in Orders : x[1] = "VENTE"}, d \in Dates}

CalculateRealizedPnl ==
    /\ job = "idle"
    /\ result = None
    /\ \E sale_tx \in SaleRows :
          result' = [call |-> "_calculate_realized_pnl", sale_tx |-> sale_tx,
                     value |-> _calculate_realized_pnl(history, sale_tx)]
    /\ UNCHANGED <<history, job, sorted_tx, idx, remaining_buys, realized_pvs, lots>>
    /\ UNCHANGED taxVars
    /\ UNCHANGED portfolioVars

\* the tab computes the gain of a row of the table it shows: a behaviour builds
\* the table and ends with the computation for one row
TransactionsTabNext ==
    \/ result = None /\ AddTransaction
    \/ CalculateRealizedPnl

TransactionsTabSpec == Init /\ [][TransactionsTabNext]_vars

(***************************************************************************)
(* Tax Engine (core/tax_calculator.py) and its rates (config.py).          *)
(***************************************************************************)
FLAT_TAX_RATE == Rat(30, 100)
INCOME_TAX_RATE == Rat(128, 1000)
SOCIAL_TAX_RATE == Rat(172, 1000)
CSG_DEDUCTIBLE_RATE == Rat(68, 1000)
DIVIDEND_ALLOWANCE_RATE == Rat(40, 100)

ZeroDivisionError == [raised |-> TRUE, exception |-> "ZeroDivisionError"]

\* variant: the deductible CSG is taken as 6.8% of the social tax
calculate_pfu_dividend_csg_of_social(gross_dividend) ==
    LET income_tax == RMul(gross_dividend, INCOME_TAX_RATE)
        social_tax == RMul(gross_dividend, SOCIAL_TAX_RATE)
        total_tax == RAdd(income_tax, social_tax)
        net_amount == RSub(gross_dividend, total_tax)
        csg_deductible == RMul(social_tax, CSG_DEDUCTIBLE_RATE)
    IN  [raised |-> FALSE,
         gross_amount |-> gross_dividend,
         tax_amount |-> total_tax,
         net_amount |-> net_amount,
         breakdown |-> [impot_revenu |-> income_tax,
                        prelevements_sociaux |-> social_tax,
                        csg_deductible |-> csg_deductible,
                        taux_effectif |-> FLAT_TAX_RATE]]

calculate_pfu_dividend(gross_dividend) ==
    LET income_tax == RMul(gross_dividend, INCOME_TAX_RATE)
        social_tax == RMul(gross_dividend, SOCIAL_TAX_RATE)
        total_tax == RAdd(income_tax, social_tax)
        net_amount == RSub(gross_dividend, total_tax)
        csg_deductible == RMul(gross_dividend, CSG_DEDUCTIBLE_RATE)
    IN  [raised |-> FALSE,
         gross_amount |-> gross_dividend,
         tax_amount |-> total_tax,
         net_amount |-> net_amount,
         breakdown |-> [impot_revenu |-> income_tax,
                        prelevements_sociaux |-> social_tax,
                        csg_deductible |-> csg_deductible,
                        taux_effectif |-> FLAT_TAX_RATE]]

calculate_pfu_capital_gain(capital_gain) == calculate_pfu_dividend(capital_gain)

\* variant: the 40% allowance also reduces the base of the social tax
calculate_progressive_tax_dividend_allowance_on_social(gross_dividend, marginal_tax_rate) ==
    LET taxable_amount == RMul(gross_dividend, RSub(R(1), DIVIDEND_ALLOWANCE_RATE))
        income_tax == RMul(taxable_amount, RDiv(marginal_tax_rate, R(100)))
        social_tax == RMul(taxable_amount, SOCIAL_TAX_RATE)
        total_tax == RAdd(income_tax, social_tax)
        net_amount == RSub(gross_dividend, total_tax)
        csg_deductible == RMul(gross_dividend, CSG_DEDUCTIBLE_RATE)
    IN  IF gross_dividend = Zero
        THEN ZeroDivisionError
        ELSE [raised |-> FALSE,
              gross_amount |-> gross_dividend,
              tax_amount |-> total_tax,
              net_amount |-> net_amount,
              breakdown |-> [abattement_40pct |-> RMul(gross_dividend, DIVIDEND_ALLOWANCE_RATE),
                             base_imposable |-> taxable_amount,
                             impot_revenu |-> income_tax,
                             prelevements_sociaux |-> social_tax,
                             csg_deductible |-> csg_deductible,
                             taux_marginal |-> marginal_tax_rate,
                             taux_effectif |-> RMul(RDiv(total_tax, gross_dividend), R(100))]]

calculate_progressive_tax_dividend(gross_dividend, marginal_tax_rate) ==
    LET taxable_amount == RMul(gross_dividend, RSub(R(1), DIVIDEND_ALLOWANCE_RATE))
        income_tax == RMul(taxable_amount, RDiv(marginal_tax_rate, R(100)))
        social_tax == RMul(gross_dividend, SOCIAL_TAX_RATE)
        total_tax == RAdd(income_tax, social_tax)
        net_amount == RSub(gross_dividend, total_tax)
        csg_deductible == RMul(gross_dividend, CSG_DEDUCTIBLE_RATE)
    IN  IF gross_dividend = Zero
        THEN ZeroDivisionError
        ELSE [raised |-> FALSE,
              gross_amount |-> gross_dividend,
              tax_amount |-> total_tax,
              net_amount |-> net_amount,
              breakdown |-> [abattement_40pct |-> RMul(gross_dividend, DIVIDEND_ALLOWANCE_RATE),
                             base_imposable |-> taxable_amount,
                             impot_revenu |-> income_tax,
                             prelevements_sociaux |-> social_tax,
                             csg_deductible |-> csg_deductible,
                             taux_marginal |-> marginal_tax_rate,
                             taux_effectif |-> RMul(RDiv(total_tax, gross_dividend), R(100))]]

compare_pfu_vs_progressive(gross_dividend, marginal_tax_rate) ==
    LET pfu_result == calculate_pfu_dividend(gross_dividend)
        progressive_result ==
            calculate_progressive_tax_dividend(gross_dividend, marginal_tax_rate)
        diff == RSub(pfu_result.tax_amount, progressive_result.tax_amount)
        better_option == IF RLt(Zero, diff) THEN "PFU" ELSE "Barème progressif"
    IN  IF progressive_result.raised
        THEN progressive_result
        ELSE [raised |-> FALSE,
              pfu |-> [net |-> pfu_result.net_amount,
                       tax |-> pfu_result.tax_amount,
                       rate |-> R(30)],
              progressive |-> [net |-> progressive_result.net_amount,
                               tax |-> progressive_result.tax_amount,
                               rate |-> progressive_result.breakdown.taux_effectif],
              difference |-> RAbs(diff),
              best_option |-> better_option,
              savings |-> IF diff # Zero THEN RAbs(diff) ELSE Zero]

NoRate == <<>>

\* variant: the losses are subtracted without the floor at 0
calculate_annual_tax_summary_no_floor(total_dividends, total_capital_gains, total_capital_losses, marginal_tax_rate) ==
    LET net_capital_gains == RSub(total_capital_gains, total_capital_losses)
        dividend_tax == calculate_pfu_dividend(total_dividends)
        capital_gain_tax == calculate_pfu_capital_gain(net_capital_gains)
        total_tax_pfu == RAdd(dividend_tax.tax_amount, capital_gain_tax.tax_amount)
        total_net_pfu == RAdd(dividend_tax.net_amount, capital_gain_tax.net_amount)
        revenus == [dividendes_bruts |-> total_dividends,
                    plus_values |-> total_capital_gains,
                    moins_values |-> total_capital_losses,
                    plus_values_nettes |-> net_capital_gains,
                    total_brut |-> RAdd(total_dividends, net_capital_gains)]
        pfu == [impot_dividendes |-> dividend_tax.tax_amount,
                impot_pv |-> capital_gain_tax.tax_amount,
                total_impot |-> total_tax_pfu,
                total_net |-> total_net_pfu,
                csg_deductible |-> RAdd(dividend_tax.breakdown.csg_deductible,
                                        capital_gain_tax.breakdown.csg_deductible)]
        progressive_div ==
            calculate_progressive_tax_dividend(total_dividends, marginal_tax_rate)
        progressive_pv == calculate_pfu_capital_gain(net_capital_gains)
        total_tax_progressive == RAdd(progressive_div.tax_amount, progressive_pv.tax_amount)
    IN  IF marginal_tax_rate = NoRate
        THEN [raised |-> FALSE, has_comparaison |-> FALSE,
              revenus |-> revenus, pfu |-> pfu]
        ELSE IF progressive_div.raised
        THEN progressive_div
        ELSE [raised |-> FALSE, has_comparaison |-> TRUE,
              revenus |-> revenus, pfu |-> pfu,
              bareme_progressif |->
                  [impot_dividendes |-> progressive_div.tax_amount,
                   impot_pv |-> progressive_pv.tax_amount,
                   total_impot |-> total_tax_progressive,
                   total_net |-> RSub(RAdd(total_dividends, net_capital_gains),
                                      total_tax_progressive),
                   tmi |-> marginal_tax_rate],
              comparaison |->
                  [difference |-> RSub(total_tax_pfu, total_tax_progressive),
                   meilleure_option |->
                       IF RLt(total_tax_pfu, total_tax_progressive) THEN "PFU" ELSE "Barème",
                   economie |-> RAbs(RSub(total_tax_pfu, total_tax_progressive))]]

\* variant: the total of the progressive regime leaves out the tax on capital gains
calculate_annual_tax_summary_bareme_without_pv(total_dividends, total_capital_gains, total_capital_losses, marginal_tax_rate) ==
    LET net_capital_gains == RMax(Zero, RSub(total_capital_gains, total_capital_losses))
        dividend_tax == calculate_pfu_dividend(total_dividends)
        capital_gain_tax == calculate_pfu_capital_gain(net_capital_gains)
        total_tax_pfu == RAdd(dividend_tax.tax_amount, capital_gain_tax.tax_amount)
        total_net_pfu == RAdd(dividend_tax.net_amount, capital_gain_tax.net_amount)
        revenus == [dividendes_bruts |-> total_dividends,
                    plus_values |-> total_capital_gains,
                    moins_values |-> total_capital_losses,
                    plus_values_nettes |-> net_capital_gains,
                    total_brut |-> RAdd(total_dividends, net_capital_gains)]
        pfu == [impot_dividendes |-> dividend_tax.tax_amount,
                impot_pv |-> capital_gain_tax.tax_amount,
                total_impot |-> total_tax_pfu,
                total_net |-> total_net_pfu,
                csg_deductible |-> RAdd(dividend_tax.breakdown.csg_deductible,
                                        capital_gain_tax.breakdown.csg_deductible)]
        progressive_div ==
            calculate_progressive_tax_dividend(total_dividends, marginal_tax_rate)
        progressive_pv == calculate_pfu_capital_gain(net_capital_gains)
        total_tax_progressive == progressive_div.tax_amount
    IN  IF marginal_tax_rate = NoRate
        THEN [raised |-> FALSE, has_comparaison |-> FALSE,
              revenus |-> revenus, pfu |-> pfu]
        ELSE IF progressive_div.raised
        THEN progressive_div
        ELSE [raised |-> FALSE, has_comparaison |-> TRUE,
              revenus |-> revenus, pfu |-> pfu,
              bareme_progressif |->
                  [impot_dividendes |-> progressive_div.tax_amount,
                   impot_pv |-> progressive_pv.tax_amount,
                   total_impot |-> total_tax_progressive,
                   total_net |-> RSub(RAdd(total_dividends, net_capital_gains),
                                      total_tax_progressive),
                   tmi |-> marginal_tax_rate],
              comparaison |->
                  [difference |-> RSub(total_tax_pfu, total_tax_progressive),
                   meilleure_option |->
                       IF RLt(total_tax_pfu, total_tax_progressive) THEN "PFU" ELSE "Barème",
                   economie |-> RAbs(RSub(total_tax_pfu, total_tax_progressive))]]

calculate_annual_tax_summary(total_dividends, total_capital_gains, total_capital_losses, marginal_tax_rate) ==
    LET net_capital_gains == RMax(Zero, RSub(total_capital_gains, total_capital_losses))
        dividend_tax == calculate_pfu_dividend(total_dividends)
        capital_gain_tax == calculate_pfu_capital_gain(net_capital_gains)
        total_tax_pfu == RAdd(dividend_tax.tax_amount, capital_gain_tax.tax_amount)
        total_net_pfu == RAdd(dividend_tax.net_amount, capital_gain_tax.net_amount)
        revenus == [dividendes_bruts |-> total_dividends,
                    plus_values |-> total_capital_gains,
                    moins_values |-> total_capital_losses,
                    plus_values_nettes |-> net_capital_gains,
                    total_brut |-> RAdd(total_dividends, net_capital_gains)]
        pfu == [impot_dividendes |-> dividend_tax.tax_amount,
                impot_pv |-> capital_gain_tax.tax_amount,
                total_impot |-> total_tax_pfu,
                total_net |-> total_net_pfu,
                csg_deductible |-> RAdd(dividend_tax.breakdown.csg_deductible,
                                        capital_gain_tax.breakdown.csg_deductible)]
        progressive_div ==
            calculate_progressive_tax_dividend(total_dividends, marginal_tax_rate)
        progressive_pv == calculate_pfu_capital_gain(net_capital_gains)
        total_tax_progressive == RAdd(progressive_div.tax_amount, progressive_pv.tax_amount)
    IN  IF marginal_tax_rate = NoRate
        THEN [raised |-> FALSE, has_comparaison |-> FALSE,
              revenus |-> revenus, pfu |-> pfu]
        ELSE IF progressive_div.raised
        THEN progressive_div
        ELSE [raised |-> FALSE, has_comparaison |-> TRUE,
              revenus |-> revenus, pfu |-> pfu,
              bareme_progressif |->
                  [impot_dividendes |-> progressive_div.tax_amount,
                   impot_pv |-> progressive_pv.tax_amount,
                   total_impot |-> total_tax_progressive,
                   total_net |-> RSub(RAdd(total_dividends, net_capital_gains),
                                      total_tax_progressive),
                   tmi |-> marginal_tax_rate],
              comparaison |->
                  [difference |-> RSub(total_tax_pfu, total_tax_progressive),
                   meilleure_option |->
                       IF RLt(total_tax_pfu, total_tax_progressive) THEN "PFU" ELSE "Barème",
                   economie |-> RAbs(RSub(total_tax_pfu, total_tax_progressive))]]

(***************************************************************************)
(* TaxCalculator.calculate_tax_bracket: the marginal rate of the 2024      *)
(* scale for the income per part.  The bounds of the brackets are whole    *)
(* euros; float('inf') is the rational 1/0, above every income under the   *)
(* cross-multiplied comparison of RLe.  An income per part inside no       *)
(* bracket falls through the loop to the final return.                     *)
(***************************************************************************)
Infinity == <<1, 0>>

brackets ==
    << [min_income |-> R(0),      max_income |-> R(11294),  rate |-> 0,  name |-> "0%"],
       [min_income |-> R(11295),  max_income |-> R(28797),  rate |-> 11, name |-> "11%"],
       [min_income |-> R(28798),  max_income |-> R(82341),  rate |-> 30, name |-> "30%"],
       [min_income |-> R(82342),  max_income |-> R(177106), rate |-> 41, name |-> "41%"],
       [min_income |-> R(177107), max_income |-> Infinity,  rate |-> 45, name |-> "45%"] >>

RECURSIVE BracketLoop(_, _)
BracketLoop(income_per_part, k) ==
    IF k > Len(brackets)
    THEN [raised |-> FALSE, rate |-> 45, name |-> "45%"]
    ELSE IF /\ RLe(brackets[k].min_income, income_per_part)
            /\ RLe(income_per_part, brackets[k].max_income)
         THEN [raised |-> FALSE, rate |-> brackets[k].rate, name |-> brackets[k].name]
         ELSE BracketLoop(income_per_part, k + 1)

calculate_tax_bracket(annual_income, family_quotient) ==
    LET income_per_part == RDiv(annual_income, family_quotient)
    IN  BracketLoop(income_per_part, 1)

(***************************************************************************)
(* TaxCalculator.calculate_ifu_data: the boxes of the yearly tax form.     *)
(***************************************************************************)
\* variant: case 6DE carries the deductible CSG of all three incomes
calculate_ifu_data_6DE_of_all(dividends_fr, dividends_foreign, capital_gains, capital_losses) ==
    LET div_fr_tax == calculate_pfu_dividend(dividends_fr)
        div_foreign_tax == calculate_pfu_dividend(dividends_foreign)
        net_gains == RMax(Zero, RSub(capital_gains, capital_losses))
        pv_tax == calculate_pfu_capital_gain(net_gains)
        montant == RAdd(RAdd(div_fr_tax.breakdown.csg_deductible,
                             div_foreign_tax.breakdown.csg_deductible),
                        pv_tax.breakdown.csg_deductible)
    IN  [raised |-> FALSE,
         case_2DC |-> dividends_fr,
         case_2AB |-> dividends_foreign,
         case_2CG |-> capital_gains,
         case_2BH |-> net_gains,
         prelevement_forfaitaire |->
             [dividendes_fr |-> div_fr_tax.tax_amount,
              dividendes_etranger |-> div_foreign_tax.tax_amount,
              plus_values |-> pv_tax.tax_amount,
              total |-> RAdd(RAdd(div_fr_tax.tax_amount, div_foreign_tax.tax_amount),
                             pv_tax.tax_amount)],
         csg_deductible |-> [montant |-> montant, case_6DE |-> montant]]

calculate_ifu_data(dividends_fr, dividends_foreign, capital_gains, capital_losses) ==
    LET div_fr_tax == calculate_pfu_dividend(dividends_fr)
        div_foreign_tax == calculate_pfu_dividend(dividends_foreign)
        net_gains == RMax(Zero, RSub(capital_gains, capital_losses))
        pv_tax == calculate_pfu_capital_gain(net_gains)
    IN  [raised |-> FALSE,
         case_2DC |-> dividends_fr,
         case_2AB |-> dividends_foreign,
         case_2CG |-> capital_gains,
         case_2BH |-> net_gains,
         prelevement_forfaitaire |->
             [dividendes_fr |-> div_fr_tax.tax_amount,
              dividendes_etranger |-> div_foreign_tax.tax_amount,
              plus_values |-> pv_tax.tax_amount,
              total |-> RAdd(RAdd(div_fr_tax.tax_amount, div_foreign_tax.tax_amount),
                             pv_tax.tax_amount)],
         csg_deductible |->
             [montant |-> RAdd(RAdd(div_fr_tax.breakdown.csg_deductible,
                                    div_foreign_tax.breakdown.csg_deductible),
                               pv_tax.breakdown.csg_deductible),
              case_6DE |-> div_fr_tax.breakdown.csg_deductible]]

(***************************************************************************)
(* Callers of the Tax Engine: non-negative amounts, and marginal rates in  *)
(* percent (the rates of the 2024 schedule, and 64/3 where both regimes    *)
(* give the same tax).  The engine keeps no state: a behaviour is one call *)
(* of one operation.                                                       *)
(***************************************************************************)
Amounts == {R(500 * k) : k \in 0..MaxAmount}
Rates == {R(0), R(11), R(30), R(41), R(45), Rat(64, 3)}

CallPfuDividend ==
    /\ tax_call = None
    /\ \E g \in Amounts :
          /\ tax_call' = [op |-> "calculate_pfu_dividend", gross |-> g]
          /\ tax_result' = calculate_pfu_dividend(g)
    /\ UNCHANGED ledgerVars
    /\ UNCHANGED portfolioVars

CallPfuCapitalGain ==
    /\ tax_call = None
    /\ \E g \in Amounts :
          /\ tax_call' = [op |-> "calculate_pfu_capital_gain", gross |-> g]
          /\ tax_result' = calculate_pfu_capital_gain(g)
    /\ UNCHANGED ledgerVars
    /\ UNCHANGED portfolioVars

CallProgressiveTaxDividend ==
    /\ tax_call = None
    /\ \E g \in Amounts, r \in Rates :
          /\ tax_call' = [op |-> "calculate_progressive_tax_dividend",
                          gross |-> g, rate |-> r]
          /\ tax_result' = calculate_progressive_tax_dividend(g, r)
    /\ UNCHANGED ledgerVars
    /\ UNCHANGED portfolioVars

CallComparePfuVsProgressive ==
    /\ tax_call = None
    /\ \E g \in Amounts, r \in Rates :
          /\ tax_call' = [op |-> "compare_pfu_vs_progressive", gross |-> g, rate |-> r]
          /\ tax_result' = compare_pfu_vs_progressive(g, r)
    /\ UNCHANGED ledgerVars
    /\ UNCHANGED portfolioVars

CallAnnualTaxSummary ==
    /\ tax_call = None
    /\ \E d \in Amounts, g \in Amounts, l \in Amounts, r \in Rates \cup {NoRate} :
          /\ tax_call' = [op |-> "calculate_annual_tax_summary",
                          gross |-> d, gains |-> g, losses |-> l, rate |-> r]
          /\ tax_result' = calculate_annual_tax_summary(d, g, l, r)
    /\ UNCHANGED ledgerVars
    /\ UNCHANGED portfolioVars

\* incomes of the offline test and incomes next to the bounds of the brackets
Incomes ==
    {R(0), R(10000), R(11294), R(11295), R(22589), R(25000), R(28797), R(28798),
     R(50000), R(57595), R(82341), R(82342), R(100000), R(177106), R(177107),
     R(200000)}

\* numbers of fiscal parts
Parts == {R(1), Rat(3, 2), R(2)}

CallTaxBracket ==
    /\ tax_call = None
    /\ \E income \in Incomes, parts \in Parts :
          /\ tax_call' = [op |-> "calculate_tax_bracket",
                          income |-> income, parts |-> parts]
          /\ tax_result' = calculate_tax_bracket(income, parts)
    /\ UNCHANGED ledgerVars
    /\ UNCHANGED portfolioVars

CallIfuData ==
    /\ tax_call = None
    /\ \E fr \in Amounts, foreign \in Amounts, g \in Amounts, l \in Amounts :
          /\ tax_call' = [op |-> "calculate_ifu_data", dividends_fr |-> fr,
                          dividends_foreign |-> foreign, gains |-> g, losses |-> l]
          /\ tax_result' = calculate_ifu_data(fr, foreign, g, l)
    /\ UNCHANGED ledgerVars
    /\ UNCHANGED portfolioVars

TaxNext ==
    \/ CallPfuDividend
    \/ CallPfuCapitalGain
    \/ CallProgressiveTaxDividend
    \/ CallComparePfuVsProgressive
    \/ CallAnnualTaxSummary
    \/ CallTaxBracket
    \/ CallIfuData

TaxSpec == Init /\ [][TaxNext]_vars

(***************************************************************************)
(* Positions.  The transactions table holds the rows of all tickers; a row *)
(* is a Transaction with its ticker (company_name and notes play no part   *)
(* and are left out).  Tickers lists the tickers in the order of           *)
(* ORDER BY ticker.                                                        *)
(***************************************************************************)
MaxRows == 3

Tickers == <<"AI.PA", "MC.PA">>

TRANSACTION_FEE == R(1)

\* orders passed to Portfolio.add_transaction: type, quantity, price per share
PortfolioOrders ==
    { <<"ACHAT", R(5), R(160)>>,
      <<"VENTE", R(10), R(180)>>,
      <<"VENTE", R(3), R(170)>> }

\* the row Portfolio.add_transaction builds and DatabaseManager.add_transaction
\* inserts under the next id
PortfolioTransaction(id, ticker, transaction_type, quantity, price_per_share, transaction_date) ==
    LET total_cost ==
            IF transaction_type = "ACHAT"
            THEN RAdd(RMul(quantity, price_per_share), TRANSACTION_FEE)
            ELSE RSub(RMul(quantity, price_per_share), TRANSACTION_FEE)
        tx == Transaction(id, transaction_type, quantity, price_per_share,
                          transaction_date, total_cost, TRANSACTION_FEE)
    IN  [ticker |-> ticker, id |-> tx.id, transaction_type |-> tx.transaction_type,
         quantity |-> tx.quantity, price_per_share |-> tx.price_per_share,
         transaction_date |-> tx.transaction_date, fees |-> tx.fees,
         total_cost |-> tx.total_cost]

\* GET_TRANSACTIONS_BY_TICKER: WHERE ticker = ? (the ORDER BY is
\* get_transactions_by_ticker)
RowsOfTicker(rows, ticker) == SelectSeq(rows, LAMBDA r : r.ticker = ticker)

(***************************************************************************)
(* Queries.GET_CURRENT_POSITIONS as SQLite runs it.  The name quantity in  *)
(* HAVING quantity > 0 is resolved to the column of the table before the   *)
(* alias of the SUM, and its value is taken from one row of the group, so  *)
(* a group passes when that row has quantity > 0; the CHECK of the table   *)
(* makes that true of every row.  The query so yields, in ticker order,    *)
(* every ticker that has a row.                                            *)
(***************************************************************************)
\* variant: HAVING tests the alias, the sum of the signed quantities
GET_CURRENT_POSITIONS_sum_alias(rows) ==
    SelectSeq(Tickers, LAMBDA t :
        LET group == RowsOfTicker(rows, t)
            signed == [i \in 1..Len(group) |->
                         IF group[i].transaction_type = "ACHAT"
                         THEN group[i].quantity
                         ELSE RSub(Zero, group[i].quantity)]
        IN  group # <<>> /\ RLt(Zero, RSum(signed)))

GET_CURRENT_POSITIONS(rows) ==
    SelectSeq(Tickers, LAMBDA t :
        LET group == RowsOfTicker(rows, t)
        IN  \E i \in 1..Len(group) : RLt(Zero, group[i].quantity))

\* DatabaseManager._calculate_position_cost, the whole loop: the lots after
\* the first k transactions, then the sums of their quantities and costs
RECURSIVE LotsAfter(_, _)
LotsAfter(txs, k) ==
    IF k = 0 THEN <<>>
    ELSE LET tx == txs[k]
             before == LotsAfter(txs, k - 1)
         IN  IF tx.transaction_type = "ACHAT"
             THEN Append(before, [quantity |-> tx.quantity, cost |-> tx.total_cost])
             ELSE SellFromLots(before, tx.quantity)

\* variant: the cost of a lot is quantity x price, the fees of the BUY left out
_calculate_position_cost_price_only(txs) ==
    LET ls == LotsAfter(txs, Len(txs))
        priced == LotsAfter([i \in 1..Len(txs) |->
                                [txs[i] EXCEPT !.total_cost =
                                    RMul(txs[i].quantity, txs[i].price_per_share)]],
                            Len(txs))
    IN  <<RSum(Quantities(ls)), RSum(Costs(priced))>>

_calculate_position_cost(txs) ==
    LET ls == LotsAfter(txs, Len(txs))
    IN  <<RSum(Quantities(ls)), RSum(Costs(ls))>>

\* the dataclass Position with its defaults
Position(ticker, quantity, average_buy_price, total_invested) ==
    [ticker |-> ticker, quantity |-> quantity,
     average_buy_price |-> average_buy_price, total_invested |-> total_invested,
     current_price |-> Zero, current_value |-> Zero,
     unrealized_pnl |-> Zero, unrealized_pnl_percent |-> Zero]

\* DatabaseManager.get_current_positions
RECURSIVE PositionsLoop(_, _, _)
PositionsLoop(rows, tickers, k) ==
    IF k = 0 THEN <<>>
    ELSE LET before == PositionsLoop(rows, tickers, k - 1)
             ticker == tickers[k]
             txs == get_transactions_by_ticker(RowsOfTicker(rows, ticker))
             cost == _calculate_position_cost(txs)
             quantity == cost[1]
             total_cost == cost[2]
         IN  IF RLe(quantity, Zero) THEN before
             ELSE Append(before,
                      Position(ticker, quantity, RDiv(total_cost, quantity), total_cost))

db_get_current_positions(rows) ==
    LET tickers == GET_CURRENT_POSITIONS(rows)
    IN  PositionsLoop(rows, tickers, Len(tickers))

(***************************************************************************)
(* Valuation.  Position.update_current_values, and the function of the     *)
(* calculator that computes the same two figures.                          *)
(***************************************************************************)
\* variant: the percentage is computed without the test on total_invested
update_current_values_unguarded(position, current_price) ==
    LET current_value == RMul(position.quantity, current_price)
        unrealized_pnl == RSub(current_value, position.total_invested)
    IN  IF position.total_invested = Zero THEN ZeroDivisionError
        ELSE [position EXCEPT
                 !.current_price = current_price,
                 !.current_value = current_value,
                 !.unrealized_pnl = unrealized_pnl,
                 !.unrealized_pnl_percent =
                     RMul(RDiv(unrealized_pnl, position.total_invested), R(100))]

update_current_values(position, current_price) ==
    LET current_value == RMul(position.quantity, current_price)
        unrealized_pnl == RSub(current_value, position.total_invested)
    IN  [position EXCEPT
            !.current_price = current_price,
            !.current_value = current_value,
            !.unrealized_pnl = unrealized_pnl,
            !.unrealized_pnl_percent =
                IF RLt(Zero, position.total_invested)
                THEN RMul(RDiv(unrealized_pnl, position.total_invested), R(100))
                ELSE Zero]

calculate_unrealized_pnl(position, current_price) ==
    LET current_value == RMul(position.quantity, current_price)
        pnl_amount == RSub(current_value, position.total_invested)
        pnl_percent ==
            IF RLt(Zero, position.total_invested)
            THEN RMul(RDiv(pnl_amount, position.total_invested), R(100))
            ELSE Zero
    IN  [raised |-> FALSE, pnl_amount |-> pnl_amount, pnl_percent |-> pnl_percent]

(***************************************************************************)
(* Portfolio.get_current_positions.  The batch lookup of the market API    *)
(* either raises or returns prices for some of the tickers asked;          *)
(* market_cache holds the cached price of some tickers; db_faults are the  *)
(* tickers for which the reads of _get_fallback_price raise (they are      *)
(* caught there).  No price at all leads to the branch that assigns        *)
(* position.unrealized_gain_loss, a property of Position without a setter: *)
(* the assignment raises AttributeError and the call ends with it.         *)
(***************************************************************************)
NoPrice == <<>>

AttributeError == [raised |-> TRUE, exception |-> "AttributeError"]

_get_fallback_price(rows, ticker, market_cache, db_faults) ==
    LET txs == get_transactions_by_ticker(RowsOfTicker(rows, ticker))
        later(i, j) ==
            \/ txs[i].transaction_date > txs[j].transaction_date
            \/ /\ txs[i].transaction_date = txs[j].transaction_date
               /\ txs[i].id >= txs[j].id
        latest == txs[CHOOSE i \in 1..Len(txs) : \A j \in 1..Len(txs) : later(i, j)]
    IN  IF ticker \notin db_faults /\ ticker \in DOMAIN market_cache
        THEN market_cache[ticker]
        ELSE IF ticker \notin db_faults /\ txs # <<>>
        THEN latest.price_per_share
        ELSE NoPrice

RECURSIVE EnrichLoop(_, _, _, _, _, _, _)
EnrichLoop(positions, k, enriched_positions, rows, market_data, market_cache, db_faults) ==
    IF k > Len(positions)
    THEN [raised |-> FALSE, positions |-> enriched_positions]
    ELSE LET position == positions[k] IN
         IF position.ticker \in DOMAIN market_data
         THEN EnrichLoop(positions, k + 1,
                  Append(enriched_positions,
                         update_current_values(position, market_data[position.ticker])),
                  rows, market_data, market_cache, db_faults)
         ELSE LET fallback_price ==
                      _get_fallback_price(rows, position.ticker, market_cache, db_faults)
              IN  IF fallback_price # NoPrice
                  THEN EnrichLoop(positions, k + 1,
                           Append(enriched_positions,
                                  update_current_values(position, fallback_price)),
                           rows, market_data, market_cache, db_faults)
                  ELSE AttributeError

get_current_positions(rows, lookup, market_cache, db_faults) ==
    LET positions == db_get_current_positions(rows)
        market_data == IF lookup.raised THEN <<>> ELSE lookup.prices
    IN  IF positions = <<>>
        THEN [raised |-> FALSE, positions |-> <<>>]
        ELSE EnrichLoop(positions, 1, <<>>, rows, market_data, market_cache, db_faults)

(***************************************************************************)
(* The portfolio: orders are added, and the positions are read from the    *)
(* database or valued.  Reading changes nothing; a behaviour ends with one *)
(* read.                                                                   *)
(***************************************************************************)
MarketPrices == {R(175)}
CachedPrices == {R(165)}

PortfolioAddTransaction ==
    /\ portfolio_call = None
    /\ Len(transactions_table) < MaxRows
    /\ \E i \in 1..Len(Tickers), o \in PortfolioOrders, d \in Dates :
          transactions_table' = Append(transactions_table,
              PortfolioTransaction(Len(transactions_table) + 1, Tickers[i],
                                   o[1], o[2], o[3], d))
    /\ UNCHANGED <<portfolio_call, portfolio_result>>
    /\ UNCHANGED ledgerVars
    /\ UNCHANGED taxVars

DbGetCurrentPositions ==
    /\ portfolio_call = None
    /\ portfolio_call' = [op |-> "DatabaseManager.get_current_positions"]
    /\ portfolio_result' =
          [raised |-> FALSE, positions |-> db_get_current_positions(transactions_table)]
    /\ UNCHANGED transactions_table
    /\ UNCHANGED ledgerVars
    /\ UNCHANGED taxVars

\* the tickers the lookups are made for
HeldTickers(rows) ==
    LET positions == db_get_current_positions(rows)
    IN  {positions[k].ticker : k \in 1..Len(positions)}

PortfolioGetCurrentPositions ==
    /\ portfolio_call = None
    /\ LET held == HeldTickers(transactions_table) IN
       \E priced \in SUBSET held, raised \in BOOLEAN :
       \E cached \in SUBSET (held \ priced) :
       \E db_faults \in SUBSET (held \ (priced \cup cached)) :
       \E prices \in [priced -> MarketPrices], market_cache \in [cached -> CachedPrices] :
          /\ raised => priced = {}
          /\ LET lookup == [raised |-> raised, prices |-> prices] IN
             /\ portfolio_call' = [op |-> "Portfolio.get_current_positions",
                                   lookup |-> lookup, market_cache |-> market_cache,
                                   db_faults |-> db_faults]
             /\ portfolio_result' =
                   get_current_positions(transactions_table, lookup, market_cache, db_faults)
    /\ UNCHANGED transactions_table
    /\ UNCHANGED ledgerVars
    /\ UNCHANGED taxVars

PortfolioNext ==
    \/ PortfolioAddTransaction
    \/ DbGetCurrentPositions
    \/ PortfolioGetCurrentPositions

PortfolioSpec == Init /\ [][PortfolioNext]_vars

(***************************************************************************)
(* The valuation functions called on their own: a behaviour is one call.   *)
(* Position is a plain dataclass, so total_invested and quantity can be    *)
(* any numbers; the lots passed to calculate_realized_pv_fifo are open     *)
(* lots of the ledger, or none.                                            *)
(***************************************************************************)
PositionInputs ==
    {Position(Tickers[1], q, IF RLt(Zero, q) THEN RDiv(c, q) ELSE Zero, c) :
        q \in {R(0), R(5), R(10)}, c \in {R(-1), R(0), R(801), R(1501)}}

CurrentPrices == {R(0), R(150), R(160), R(175)}

BuyLists ==
    LET b1 == Transaction(1, "ACHAT", R(10), R(150), 1, R(1501), R(1))
        b2 == Transaction(2, "ACHAT", R(5), R(160), 1, R(801), R(1))
    IN  {<<>>, <<b1>>, <<b1, b2>>}

CallUpdateCurrentValues ==
    /\ portfolio_call = None
    /\ \E position \in PositionInputs, current_price \in CurrentPrices :
          /\ portfolio_call' = [op |-> "update_current_values", position |-> position,
                                current_price |-> current_price]
          /\ portfolio_result' = update_current_values(position, current_price)
    /\ UNCHANGED transactions_table
    /\ UNCHANGED ledgerVars
    /\ UNCHANGED taxVars

CallCalculateUnrealizedPnl ==
    /\ portfolio_call = None
    /\ \E position \in PositionInputs, current_price \in CurrentPrices :
          /\ portfolio_call' = [op |-> "calculate_unrealized_pnl", position |-> position,
                                current_price |-> current_price]
          /\ portfolio_result' = calculate_unrealized_pnl(position, current_price)
    /\ UNCHANGED transactions_table
    /\ UNCHANGED ledgerVars
    /\ UNCHANGED taxVars

CallCalculateRealizedPvFifo ==
    /\ portfolio_call = None
    /\ \E buy_transactions \in BuyLists, o \in {x \in Orders : x[1] = "VENTE"}, d \in Dates :
          LET sell_transaction == Transaction(3, o[1], o[2], o[3], d, o[4], o[5]) IN
          /\ portfolio_call' = [op |-> "calculate_realized_pv_fifo",
                                buy_transactions |-> buy_transactions,
                                sell_transaction |-> sell_transaction]
          /\ portfolio_result' = calculate_realized_pv_fifo(buy_transactions, sell_transaction)
    /\ UNCHANGED transactions_table
    /\ UNCHANGED ledgerVars
    /\ UNCHANGED taxVars

ValuationNext ==
    \/ CallUpdateCurrentValues
    \/ CallCalculateUnrealizedPnl
    \/ CallCalculateRealizedPvFifo

ValuationSpec == Init /\ [][ValuationNext]_vars

(***************************************************************************)
(* Vocabulary of the properties.                                           *)
(***************************************************************************)
IsBuy(t) == t.transaction_type = "ACHAT"
IsSell(t) == t.transaction_type = "VENTE"
InCalculatorReplay == job \in {"all_realized_pv", "average_buy_price"}
InLedgerReplay == job = "position_cost"
Processed == SubSeq(sorted_tx, 1, idx)
BuysProcessed == SelectSeq(Processed, IsBuy)
AsLot(t) == [quantity |-> t.quantity, cost |-> t.total_cost]
AsLots(s) == [i \in 1..Len(s) |-> AsLot(s[i])]
QuantitiesSold(s) == [i \in 1..Len(s) |-> s[i].quantity_sold]
\* the open lots of whichever replay is running, as (quantity, cost) pairs
OpenLots == IF InLedgerReplay THEN lots ELSE AsLots(remaining_buys)
OpenQuantity(ls) == RSum(Quantities(ls))

RECURSIVE PrefixQuantity(_, _)
PrefixQuantity(ls, k) ==
    IF k = 0 THEN Zero ELSE RAdd(PrefixQuantity(ls, k - 1), ls[k].quantity)

(***************************************************************************)
(* C1 - FIFO order of the Lot Ledger.  After every transaction of a replay *)
(* (calculator or db_manager) the open lots are, in purchase order, the    *)
(* last BUYs processed so far; every open lot but the oldest still has the *)
(* full quantity and cost of its BUY, and the oldest has at most the       *)
(* quantity of its BUY and more than nothing.  Hence no SELL has taken     *)
(* quantity from a lot while an older one was open.                        *)
(***************************************************************************)
C1_FifoOrder ==
    (InCalculatorReplay \/ InLedgerReplay) =>
        LET B == BuysProcessed
            L == OpenLots
            k == Len(B) - Len(L)
        IN  /\ k >= 0
            /\ \A j \in 1..Len(L) :
                  /\ j > 1 => L[j] = AsLot(B[k + j])
                  /\ RLt(Zero, L[j].quantity)
                  /\ RLe(L[j].quantity, B[k + j].quantity)
            /\ InCalculatorReplay =>
                  \A j \in 1..Len(L) :
                      /\ remaining_buys[j].id = B[k + j].id
                      /\ j > 1 => remaining_buys[j] = B[k + j]

\* a SELL has left the oldest lot partly consumed, with an untouched lot behind it
C1_Witness ==
    /\ job = "all_realized_pv"
    /\ idx = 3
    /\ IsSell(sorted_tx[3])
    /\ Len(remaining_buys) = 2
    /\ RLt(remaining_buys[1].quantity, sorted_tx[1].quantity)
    /\ remaining_buys[2] = sorted_tx[2]

(***************************************************************************)
(* C2 - calculate_realized_pv_fifo.  The result of every SELL of a replay  *)
(* is the one obtained by taking from the k-th open lot                    *)
(* min(quantity_k, sell quantity - quantity taken from the lots before it) *)
(* at unit cost total_cost_k / quantity_k: total_gain_loss is the sale's   *)
(* total_cost minus the consumed cost, average_buy_price the consumed cost *)
(* over the consumed quantity.  For lots (10, 1501), (5, 801) and a sale   *)
(* of 12 with total_cost 2159: both lots are used, 12 shares are consumed  *)
(* at a cost of 1821.4 (10 of the first lot, 2 of the second), and the     *)
(* gain is 337.6.                                                          *)
(***************************************************************************)
TakenFrom(ls, sold, k) ==
    RMin(ls[k].quantity, RSub(sold, RMin(sold, PrefixQuantity(ls, k - 1))))

RECURSIVE ConsumedQuantity(_, _, _)
ConsumedQuantity(ls, sold, k) ==
    IF k = 0 THEN Zero
    ELSE RAdd(ConsumedQuantity(ls, sold, k - 1), TakenFrom(ls, sold, k))

RECURSIVE ConsumedCost(_, _, _)
ConsumedCost(ls, sold, k) ==
    IF k = 0 THEN Zero
    ELSE RAdd(ConsumedCost(ls, sold, k - 1),
              RMul(TakenFrom(ls, sold, k), RDiv(ls[k].cost, ls[k].quantity)))

C2_RealizedPvFifo ==
    [][ (job = "all_realized_pv" /\ idx < Len(sorted_tx) /\ idx' = idx + 1
            /\ IsSell(sorted_tx[idx + 1])) =>
        LET sell == sorted_tx[idx + 1]
            L == AsLots(remaining_buys)
            cost == ConsumedCost(L, sell.quantity, Len(L))
            qty == ConsumedQuantity(L, sell.quantity, Len(L))
            r == realized_pvs'[Len(realized_pvs')]
        IN  /\ Len(realized_pvs') = Len(realized_pvs) + 1
            /\ r.quantity_sold = qty
            /\ r.total_gain_loss = RSub(sell.total_cost, cost)
            /\ RLt(Zero, qty) => r.average_buy_price = RDiv(cost, qty)
            /\ (/\ L = << [quantity |-> R(10), cost |-> R(1501)],
                          [quantity |-> R(5), cost |-> R(801)] >>
                /\ sell.quantity = R(12)
                /\ sell.total_cost = R(2159))
               => /\ r.quantity_sold = R(12)
                  /\ Len(r.buy_transactions_used) = 2
                  /\ RMul(r.average_buy_price, r.quantity_sold) = Rat(18214, 10)
                  /\ r.total_gain_loss = Rat(3376, 10)
                  /\ TakenFrom(L, sell.quantity, 1) = R(10)
                  /\ TakenFrom(L, sell.quantity, 2) = R(2)
      ]_vars

\* the sale of 12 against the lots (10, 1501) and (5, 801) has been computed
C2_Witness ==
    /\ job = "all_realized_pv"
    /\ idx = 3
    /\ AsLot(sorted_tx[1]) = [quantity |-> R(10), cost |-> R(1501)]
    /\ AsLot(sorted_tx[2]) = [quantity |-> R(5), cost |-> R(801)]
    /\ sorted_tx[3].quantity = R(12)
    /\ sorted_tx[3].total_cost = R(2159)
    /\ Len(realized_pvs) = 1
    /\ realized_pvs[1].total_gain_loss = Rat(3376, 10)

(***************************************************************************)
(* C3 - calculate_all_realized_pv.  When the loop has ended there is one   *)
(* result per SELL of the list passed, the results are in date order (the  *)
(* order of the list among the SELLs of one day), the BUYs a result used   *)
(* all come before its SELL in that order, and the quantity a result       *)
(* consumed is what the BUYs before its SELL still had left after the      *)
(* earlier results: min(sell quantity, bought before - consumed before).   *)
(***************************************************************************)
Before(u, t) ==
    \/ u.transaction_date < t.transaction_date
    \/ u.transaction_date = t.transaction_date /\ u.id < t.id

RECURSIVE QuantityOf(_)
QuantityOf(ids) ==
    IF ids = {} THEN Zero
    ELSE LET i == CHOOSE x \in ids : TRUE
         IN  RAdd(history[i].quantity, QuantityOf(ids \ {i}))

RECURSIVE SoldBefore(_)
SoldBefore(k) ==
    IF k = 0 THEN Zero ELSE RAdd(SoldBefore(k - 1), realized_pvs[k].quantity_sold)

C3_OneResultPerSell ==
    (job = "all_realized_pv" /\ idx = Len(sorted_tx)) =>
        LET ids == 1..Len(history)
            sells == {i \in ids : IsSell(history[i])}
            rank(i) == Cardinality({j \in sells : Before(history[j], history[i])}) + 1
            buysBefore(i) == {j \in ids : IsBuy(history[j]) /\ Before(history[j], history[i])}
        IN  /\ Len(realized_pvs) = Cardinality(sells)
            /\ \A k, l \in 1..Len(realized_pvs) :
                  k < l => realized_pvs[k].sell_date <= realized_pvs[l].sell_date
            /\ \A i \in sells :
                  LET r == realized_pvs[rank(i)] IN
                  /\ r.sell_date = history[i].transaction_date
                  /\ r.sell_price = history[i].price_per_share
                  /\ \A u \in 1..Len(r.buy_transactions_used) :
                        r.buy_transactions_used[u] \in buysBefore(i)
                  /\ r.quantity_sold =
                        RMin(history[i].quantity,
                             RSub(QuantityOf(buysBefore(i)), SoldBefore(rank(i) - 1)))

\* a list passed out of date order: a SELL, then a BUY dated before it, then a
\* second SELL; both results are there and the second found the lot used up
C3_Witness ==
    /\ job = "all_realized_pv"
    /\ idx = Len(sorted_tx)
    /\ Len(history) = 3
    /\ IsSell(history[1]) /\ IsBuy(history[2]) /\ IsSell(history[3])
    /\ history[2].transaction_date < history[1].transaction_date
    /\ Len(realized_pvs) = 2
    /\ RLt(Zero, realized_pvs[1].quantity_sold)
    /\ RLt(realized_pvs[2].quantity_sold, history[3].quantity)

(***************************************************************************)
(* C6 - quantity conservation.  After every transaction of                 *)
(* calculate_all_realized_pv, the quantity of the open lots plus the       *)
(* quantity_sold of all results so far is the quantity of all BUYs         *)
(* processed so far.                                                       *)
(***************************************************************************)

C6_QuantityConservation ==
    job = "all_realized_pv" =>
        RAdd(RSum(Quantities(remaining_buys)), RSum(QuantitiesSold(realized_pvs)))
            = RSum(Quantities(BuysProcessed))

\* two SELLs have been served and a lot is still open
C6_Witness ==
    /\ job = "all_realized_pv"
    /\ Len(realized_pvs) = 2
    /\ RLt(Zero, realized_pvs[1].quantity_sold)
    /\ RLt(Zero, realized_pvs[2].quantity_sold)
    /\ Len(remaining_buys) = 1

(***************************************************************************)
(* C7 - over-sell.  In both replays a SELL of more than the open quantity  *)
(* leaves no lot (open quantity and cost 0, nothing negative), and a BUY   *)
(* processed on an empty ledger opens exactly one lot with the full        *)
(* quantity and cost of the BUY: nothing of the excess is carried over.    *)
(***************************************************************************)
C7_OverSell ==
    [][ ((InCalculatorReplay \/ InLedgerReplay) /\ idx < Len(sorted_tx) /\ idx' = idx + 1) =>
        LET tx == sorted_tx[idx + 1]
            L == OpenLots
            Lp == IF InLedgerReplay THEN lots' ELSE AsLots(remaining_buys')
        IN  /\ (IsSell(tx) /\ RLt(OpenQuantity(L), tx.quantity)) =>
                  /\ Lp = <<>>
                  /\ OpenQuantity(Lp) = Zero
                  /\ RSum(Costs(Lp)) = Zero
            /\ (IsBuy(tx) /\ L = <<>>) => Lp = <<AsLot(tx)>>
      ]_vars

\* BUY, a SELL of more than was bought, then a BUY: one full lot is open
C7_Witness ==
    /\ InLedgerReplay
    /\ idx = 3
    /\ IsBuy(sorted_tx[1]) /\ IsSell(sorted_tx[2]) /\ IsBuy(sorted_tx[3])
    /\ RLt(sorted_tx[1].quantity, sorted_tx[2].quantity)
    /\ lots = <<AsLot(sorted_tx[3])>>

(***************************************************************************)
(* C8 - partial consumption.  In both replays, when a SELL of less than    *)
(* the open quantity stops inside a lot, that lot keeps its quantity minus *)
(* what the SELL took from it, its cost over its quantity is what it was   *)
(* before the SELL, and the lots behind it are unchanged.  (In db_manager  *)
(* a lot counts as partly consumed when more than the tolerance of 1e-9    *)
(* is left of it.)                                                         *)
(***************************************************************************)
StopsInside(ls, sold, j) ==
    /\ RLt(PrefixQuantity(ls, j - 1), sold)
    /\ RLt(sold, PrefixQuantity(ls, j))
    /\ InLedgerReplay =>
          ~WithinTolerance(ls[j].quantity, RSub(sold, PrefixQuantity(ls, j - 1)))

C8_PartialConsumption ==
    [][ ((InCalculatorReplay \/ InLedgerReplay) /\ idx < Len(sorted_tx) /\ idx' = idx + 1
            /\ IsSell(sorted_tx[idx + 1])
            /\ \E j \in 1..Len(OpenLots) :
                  StopsInside(OpenLots, sorted_tx[idx + 1].quantity, j)) =>
        LET tx == sorted_tx[idx + 1]
            L == OpenLots
            Lp == IF InLedgerReplay THEN lots' ELSE AsLots(remaining_buys')
            \* the lot the SELL stops in: the first one it does not exhaust
            p == CHOOSE j \in 1..Len(L) : StopsInside(L, tx.quantity, j)
            taken == RSub(tx.quantity, PrefixQuantity(L, p - 1))
        IN  /\ Len(Lp) = Len(L) - p + 1
            /\ Lp[1].quantity = RSub(L[p].quantity, taken)
            /\ RDiv(Lp[1].cost, Lp[1].quantity) = RDiv(L[p].cost, L[p].quantity)
            /\ Lp[1].cost = RMul(L[p].cost, RDiv(Lp[1].quantity, L[p].quantity))
            /\ \A j \in 2..Len(Lp) : Lp[j] = L[p + j - 1]
            /\ InCalculatorReplay =>
                  \A j \in 2..Len(Lp) : remaining_buys'[j] = remaining_buys[p + j - 1]
      ]_vars

\* a SELL has taken 2 of the 5 shares of the second lot after exhausting the first
C8_Witness ==
    /\ InLedgerReplay
    /\ idx = 3
    /\ IsBuy(sorted_tx[1]) /\ IsBuy(sorted_tx[2]) /\ IsSell(sorted_tx[3])
    /\ RLt(sorted_tx[1].quantity, sorted_tx[3].quantity)
    /\ Len(lots) = 1
    /\ RLt(lots[1].quantity, sorted_tx[2].quantity)
    /\ RMul(lots[1].cost, sorted_tx[2].quantity)
          = RMul(sorted_tx[2].total_cost, lots[1].quantity)

(***************************************************************************)
(* Vocabulary of the Tax Engine properties.                                *)
(***************************************************************************)
Called(op) == tax_call # None /\ tax_call.op = op
Returned(op) == Called(op) /\ ~tax_result.raised
Percent(n, d) == Rat(n, 100 * d)

(***************************************************************************)
(* C4 - compare_pfu_vs_progressive reports as best_option the regime with  *)
(* the strictly lower tax, and PFU when the two taxes are equal.           *)
(***************************************************************************)
C4_BestOptionIsCheaper ==
    Returned("compare_pfu_vs_progressive") =>
        /\ RLt(tax_result.pfu.tax, tax_result.progressive.tax)
              => tax_result.best_option = "PFU"
        /\ RLt(tax_result.progressive.tax, tax_result.pfu.tax)
              => tax_result.best_option = "Barème progressif"
        /\ tax_result.pfu.tax = tax_result.progressive.tax
              => tax_result.best_option = "PFU"

(***************************************************************************)
(* C5 - no Tax Engine operation raises for non-negative inputs; with a     *)
(* gross amount of 0, calculate_progressive_tax_dividend,                  *)
(* compare_pfu_vs_progressive and calculate_annual_tax_summary return a    *)
(* result.                                                                 *)
(***************************************************************************)
C5_NeverRaises ==
    tax_call # None =>
        /\ ~tax_result.raised
        /\ (Called("calculate_progressive_tax_dividend") /\ tax_call.gross = Zero)
              => tax_result.breakdown.taux_effectif = Zero
        /\ (Called("compare_pfu_vs_progressive") /\ tax_call.gross = Zero)
              => tax_result.progressive.rate = Zero

(***************************************************************************)
(* C9 - calculate_progressive_tax_dividend.  In every result returned the  *)
(* taxable base is 60% of the gross amount, income_tax is the base times   *)
(* rate / 100, social_tax is 17.2% of the full gross amount, tax_amount is *)
(* their sum and net_amount the gross amount minus it.  For (5000, 30):    *)
(* 3000, 900, 860, 1760 and 3240.                                          *)
(***************************************************************************)
C9_ProgressiveTax ==
    Returned("calculate_progressive_tax_dividend") =>
        LET g == tax_call.gross
            b == tax_result.breakdown
        IN  /\ tax_result.gross_amount = g
            /\ b.base_imposable = RMul(g, Percent(60, 1))
            /\ b.impot_revenu = RDiv(RMul(b.base_imposable, tax_call.rate), R(100))
            /\ b.prelevements_sociaux = RMul(g, Percent(172, 10))
            /\ tax_result.tax_amount = RAdd(b.impot_revenu, b.prelevements_sociaux)
            /\ tax_result.net_amount = RSub(g, tax_result.tax_amount)
            /\ (g = R(5000) /\ tax_call.rate = R(30)) =>
                  /\ b.base_imposable = R(3000)
                  /\ b.impot_revenu = R(900)
                  /\ b.prelevements_sociaux = R(860)
                  /\ tax_result.tax_amount = R(1760)
                  /\ tax_result.net_amount = R(3240)

\* the call (5000, 30) has returned
C9_Witness ==
    /\ Returned("calculate_progressive_tax_dividend")
    /\ tax_call.gross = R(5000)
    /\ tax_call.rate = R(30)
    /\ tax_result.tax_amount = R(1760)

(***************************************************************************)
(* C10 - calculate_pfu_dividend(x) and calculate_pfu_capital_gain(x) give  *)
(* the same result: income_tax 12.8% of x, social_tax 17.2% of x,          *)
(* tax_amount their sum, which is 30% of x, net_amount x - tax_amount,     *)
(* csg_deductible 6.8% of x; for x = 5000 the tax_amount is 1500.          *)
(***************************************************************************)
C10_PfuResult ==
    (Returned("calculate_pfu_dividend") \/ Returned("calculate_pfu_capital_gain")) =>
        LET x == tax_call.gross
            b == tax_result.breakdown
        IN  /\ tax_result.gross_amount = x
            /\ b.impot_revenu = RMul(x, Percent(128, 10))
            /\ b.prelevements_sociaux = RMul(x, Percent(172, 10))
            /\ tax_result.tax_amount = RAdd(b.impot_revenu, b.prelevements_sociaux)
            /\ tax_result.tax_amount = RMul(x, Percent(30, 1))
            /\ tax_result.net_amount = RSub(x, tax_result.tax_amount)
            /\ RAdd(tax_result.tax_amount, tax_result.net_amount) = x
            /\ b.csg_deductible = RMul(x, Percent(68, 10))
            /\ x = R(5000) => tax_result.tax_amount = R(1500)
            /\ Called("calculate_pfu_capital_gain") =>
                  tax_result = calculate_pfu_dividend(x)

\* calculate_pfu_capital_gain(5000) has returned a tax of 1500
C10_Witness ==
    /\ Returned("calculate_pfu_capital_gain")
    /\ tax_call.gross = R(5000)
    /\ tax_result.tax_amount = R(1500)

(***************************************************************************)
(* C11 - calculate_annual_tax_summary.  In every summary returned,         *)
(* plus_values_nettes is gains - losses when that is positive and 0        *)
(* otherwise, never negative; the PFU tax on the dividends is 30% of the   *)
(* dividends, the PFU tax on the gains 30% of plus_values_nettes, and      *)
(* pfu.total_impot their sum.  Losses above the gains leave the tax on the *)
(* dividends, and so the total, at 30% of the dividends.                   *)
(***************************************************************************)
C11_NetGainsFloor ==
    Returned("calculate_annual_tax_summary") =>
        LET d == tax_call.gross
            g == tax_call.gains
            l == tax_call.losses
            net == tax_result.revenus.plus_values_nettes
        IN  /\ net = IF RLt(l, g) THEN RSub(g, l) ELSE Zero
            /\ RLe(Zero, net)
            /\ tax_result.pfu.impot_dividendes = RMul(d, Percent(30, 1))
            /\ tax_result.pfu.impot_pv = RMul(net, Percent(30, 1))
            /\ tax_result.pfu.total_impot =
                  RAdd(tax_result.pfu.impot_dividendes, tax_result.pfu.impot_pv)
            /\ RLt(g, l) => tax_result.pfu.total_impot = RMul(d, Percent(30, 1))

\* a summary with dividends and with losses above the gains has been returned
C11_Witness ==
    /\ Returned("calculate_annual_tax_summary")
    /\ RLt(Zero, tax_call.gross)
    /\ RLt(Zero, tax_call.gains)
    /\ RLt(tax_call.gains, tax_call.losses)
    /\ tax_result.revenus.plus_values_nettes = Zero
    /\ RLt(Zero, tax_result.pfu.total_impot)

(***************************************************************************)
(* C12 - calculate_annual_tax_summary with a marginal rate.  The gains are *)
(* taxed at PFU in both regimes: comparaison.difference is the PFU tax on  *)
(* the dividends minus their progressive tax, whatever the gains and the   *)
(* losses; meilleure_option is 'PFU' exactly when pfu.total_impot is below *)
(* bareme_progressif.total_impot and 'Barème' otherwise; economie is the   *)
(* absolute value of the difference.  Without a marginal rate the summary  *)
(* has neither bareme_progressif nor comparaison.                          *)
(***************************************************************************)
C12_Comparaison ==
    Returned("calculate_annual_tax_summary") =>
        LET d == tax_call.gross
            r == tax_call.rate
            keys == DOMAIN tax_result
        IN  IF r = NoRate
            THEN "bareme_progressif" \notin keys /\ "comparaison" \notin keys
            ELSE LET c == tax_result.comparaison
                     pfuOnDividends == RMul(d, Percent(30, 1))
                     baremeOnDividends ==
                         RAdd(RDiv(RMul(RMul(d, Percent(60, 1)), r), R(100)),
                              RMul(d, Percent(172, 10)))
                 IN  /\ "bareme_progressif" \in keys
                     /\ c.difference = RSub(pfuOnDividends, baremeOnDividends)
                     /\ c.meilleure_option \in {"PFU", "Barème"}
                     /\ c.meilleure_option = "PFU" <=>
                           RLt(tax_result.pfu.total_impot,
                               tax_result.bareme_progressif.total_impot)
                     /\ c.economie = RAbs(c.difference)

\* a summary with a rate, dividends and net gains: PFU is the better option
C12_Witness ==
    /\ Returned("calculate_annual_tax_summary")
    /\ tax_call.rate = R(30)
    /\ RLt(Zero, tax_call.gross)
    /\ RLt(Zero, tax_result.revenus.plus_values_nettes)
    /\ tax_result.comparaison.meilleure_option = "PFU"
    /\ RLt(tax_result.comparaison.difference, Zero)

(***************************************************************************)
(* C13 - calculate_tax_bracket.  For an income >= 0 and at least one part  *)
(* the rate returned is the rate of the one bracket of the scale that      *)
(* holds the income per part: 0% up to 11294, 11% above that up to 28797,  *)
(* 30% up to 82341, 41% up to 177106 and 45% only above 177106.  The rate  *)
(* so never decreases with the income per part, also when the income per   *)
(* part is not a whole number of euros.                                    *)
(***************************************************************************)
BracketRate(income_per_part) ==
    IF RLe(income_per_part, R(11294)) THEN 0
    ELSE IF RLe(income_per_part, R(28797)) THEN 11
    ELSE IF RLe(income_per_part, R(82341)) THEN 30
    ELSE IF RLe(income_per_part, R(177106)) THEN 41
    ELSE 45

C13_BracketOfIncomePerPart ==
    Returned("calculate_tax_bracket") =>
        LET per_part == RDiv(tax_call.income, tax_call.parts)
        IN  /\ tax_result.rate = BracketRate(per_part)
            /\ tax_result.rate = 45 => RLt(R(177106), per_part)

(***************************************************************************)
(* C20 - calculate_ifu_data.  Box 2DC is the French dividends, 2AB the     *)
(* foreign dividends, 2CG the gains, 2BH the gains net of the losses and   *)
(* never below 0; prelevement_forfaitaire.total is the sum of the 30% PFU  *)
(* taxes on the French dividends, the foreign dividends and the net gains; *)
(* csg_deductible.montant is the sum of the 6.8% deductible CSG of the     *)
(* three, and case_6DE the deductible CSG of the French dividends alone.   *)
(***************************************************************************)
C20_IfuBoxes ==
    Returned("calculate_ifu_data") =>
        LET fr == tax_call.dividends_fr
            foreign == tax_call.dividends_foreign
            g == tax_call.gains
            l == tax_call.losses
            net == IF RLt(l, g) THEN RSub(g, l) ELSE Zero
            pf == tax_result.prelevement_forfaitaire
        IN  /\ tax_result.case_2DC = fr
            /\ tax_result.case_2AB = foreign
            /\ tax_result.case_2CG = g
            /\ tax_result.case_2BH = net
            /\ pf.dividendes_fr = RMul(fr, Percent(30, 1))
            /\ pf.dividendes_etranger = RMul(foreign, Percent(30, 1))
            /\ pf.plus_values = RMul(net, Percent(30, 1))
            /\ pf.total = RSum(<<pf.dividendes_fr, pf.dividendes_etranger, pf.plus_values>>)
            /\ tax_result.csg_deductible.montant =
                  RSum(<<RMul(fr, Percent(68, 10)), RMul(foreign, Percent(68, 10)),
                         RMul(net, Percent(68, 10))>>)
            /\ tax_result.csg_deductible.case_6DE = RMul(fr, Percent(68, 10))

\* the form of a year with French and foreign dividends and gains above the losses
C20_Witness ==
    /\ Returned("calculate_ifu_data")
    /\ RLt(Zero, tax_call.dividends_fr)
    /\ RLt(Zero, tax_call.dividends_foreign)
    /\ RLt(Zero, tax_call.losses)
    /\ RLt(tax_call.losses, tax_call.gains)
    /\ RLt(tax_result.csg_deductible.case_6DE, tax_result.csg_deductible.montant)

(***************************************************************************)
(* C19 - replaying the ledger is idempotent.  From the start of a replay   *)
(* (calculate_all_realized_pv, calculate_average_buy_price or              *)
(* _calculate_position_cost) to its return the transactions of the caller  *)
(* and their order stay as they were, and a replay that returns while the  *)
(* result of an earlier replay by the same function of the same history is *)
(* still held returns that same result.                                    *)
(***************************************************************************)
C19_ReplayIdempotent ==
    [][ /\ (job # "idle" \/ job' # "idle") => history' = history
        /\ (/\ job # "idle"
            /\ job' = "idle"
            /\ result # None
            /\ result.call = result'.call) => result'.value = result.value
      ]_vars

\* a second replay by calculate_all_realized_pv is about to return, with a lot
\* that a sale has consumed in part
C19_Witness ==
    /\ job = "all_realized_pv"
    /\ idx = Len(sorted_tx)
    /\ result # None
    /\ result.call = "calculate_all_realized_pv"
    /\ \E k \in 1..Len(remaining_buys), i \in 1..Len(history) :
          /\ remaining_buys[k].id = history[i].id
          /\ RLt(remaining_buys[k].quantity, history[i].quantity)

(***************************************************************************)
(* C17 - TransactionsTab._calculate_realized_pnl.  When the id of the sale *)
(* is the id of no SELL of the ticker's history the call raises            *)
(* ValueError.  Otherwise it returns the gain of the sale against the lots *)
(* open just before it, the history being taken in (date, id) order and    *)
(* every earlier SELL applied: lay the BUYs before the sale end to end in  *)
(* that order; the earlier SELLs have consumed the first ConsumedBefore    *)
(* shares of that line, the sale consumes the next ones up to its quantity *)
(* or to the end of the line, each at the unit cost of its BUY.            *)
(* total_gain_loss is the sale's total_cost minus that cost and            *)
(* gain_loss_percent the gain over that cost in percent (0 for cost 0).    *)
(***************************************************************************)
BuysBefore(t) == {j \in 1..Len(history) : IsBuy(history[j]) /\ Before(history[j], t)}
SellsBefore(t) == {j \in 1..Len(history) : IsSell(history[j]) /\ Before(history[j], t)}

RECURSIVE ConsumedBefore(_)
ConsumedBefore(t) ==
    IF SellsBefore(t) = {} THEN Zero
    ELSE LET j == CHOOSE x \in SellsBefore(t) :
                     \A y \in SellsBefore(t) \ {x} : Before(history[y], history[x])
             earlier == ConsumedBefore(history[j])
         IN  RAdd(earlier,
                  RMin(history[j].quantity,
                       RSub(QuantityOf(BuysBefore(history[j])), earlier)))

RECURSIVE OverlapCost(_, _, _)
OverlapCost(buys, from, to) ==
    IF buys = {} THEN Zero
    ELSE LET b == CHOOSE x \in buys : TRUE
             start == QuantityOf(BuysBefore(history[b]))
             end == RAdd(start, history[b].quantity)
             taken == RMax(Zero, RSub(RMin(end, to), RMax(start, from)))
         IN  RAdd(RMul(taken, RDiv(history[b].total_cost, history[b].quantity)),
                  OverlapCost(buys \ {b}, from, to))

C17_RealizedPnlOfSale ==
    (result # None /\ result.call = "_calculate_realized_pnl") =>
        LET sale == result.sale_tx
            r == result.value
            found == \E i \in 1..Len(history) :
                        IsSell(history[i]) /\ history[i].id = sale.id
            from == ConsumedBefore(sale)
            to == RMin(RAdd(from, sale.quantity), QuantityOf(BuysBefore(sale)))
            cost == OverlapCost(BuysBefore(sale), from, to)
            gain == RSub(sale.total_cost, cost)
        IN  IF ~found
            THEN r = ValueError
            ELSE /\ ~r.raised
                 /\ r.total_gain_loss = gain
                 /\ r.gain_loss_percent =
                       IF RLt(Zero, cost) THEN RDiv(RMul(gain, R(100)), cost) ELSE Zero

\* the gain of a sale that found the first lot partly consumed by an earlier sale
C17_Witness ==
    /\ result # None
    /\ result.call = "_calculate_realized_pnl"
    /\ ~result.value.raised
    /\ Len(history) = 3
    /\ IsBuy(history[1]) /\ IsSell(history[2]) /\ IsSell(history[3])
    /\ result.sale_tx = history[3]
    /\ Before(history[1], history[2]) /\ Before(history[2], history[3])
    /\ RLt(history[2].quantity, history[1].quantity)
    /\ RLt(Zero, result.value.gain_loss_percent)

(***************************************************************************)
(* Vocabulary of the positions and valuation properties.                   *)
(***************************************************************************)
PortfolioCalled(op) == portfolio_call # None /\ portfolio_call.op = op

\* the rows of a ticker in (date, id) order
OrderedRows(ticker) ==
    LET ids == {i \in 1..Len(transactions_table) : transactions_table[i].ticker = ticker}
        rank(i) == Cardinality({j \in ids :
                       Before(transactions_table[j], transactions_table[i])}) + 1
    IN  [r \in 1..Cardinality(ids) |->
            transactions_table[CHOOSE i \in ids : rank(i) = r]]

\* the open quantity after the first k rows: a BUY adds its quantity, a SELL
\* takes its quantity or whatever is open if that is less
RECURSIVE OpenBalance(_, _)
OpenBalance(rows, k) ==
    IF k = 0 THEN Zero
    ELSE IF IsBuy(rows[k])
         THEN RAdd(OpenBalance(rows, k - 1), rows[k].quantity)
         ELSE RMax(Zero, RSub(OpenBalance(rows, k - 1), rows[k].quantity))

OpenQuantityOf(ticker) == OpenBalance(OrderedRows(ticker), Len(OrderedRows(ticker)))

TickersOf(positions) == [k \in 1..Len(positions) |-> positions[k].ticker]

(***************************************************************************)
(* C14 - DatabaseManager.get_current_positions returns one position for    *)
(* each ticker whose open quantity after the replay of all its rows is     *)
(* above 0 and for no other ticker, in ticker order, each with that open   *)
(* quantity.  A ticker sold in full is absent; a ticker with an open lot   *)
(* is present also when an earlier SELL was for more than was open (BUY 5, *)
(* SELL 10, BUY 5 leaves 5).                                               *)
(***************************************************************************)
C14_PositionsOfOpenLots ==
    PortfolioCalled("DatabaseManager.get_current_positions") =>
        LET positions == portfolio_result.positions
        IN  /\ TickersOf(positions) =
                  SelectSeq(Tickers, LAMBDA t : RLt(Zero, OpenQuantityOf(t)))
            /\ \A k \in 1..Len(positions) :
                  /\ positions[k].quantity = OpenQuantityOf(positions[k].ticker)
                  /\ RLt(Zero, positions[k].quantity)

\* BUY 5, SELL 10, BUY 5 of one ticker, in that order: its position of 5 is returned
C14_Witness ==
    /\ PortfolioCalled("DatabaseManager.get_current_positions")
    /\ Len(transactions_table) = 3
    /\ LET rows == OrderedRows(Tickers[1]) IN
       /\ Len(rows) = 3
       /\ IsBuy(rows[1]) /\ rows[1].quantity = R(5)
       /\ IsSell(rows[2]) /\ rows[2].quantity = R(10)
       /\ IsBuy(rows[3]) /\ rows[3].quantity = R(5)
    /\ Len(portfolio_result.positions) = 1
    /\ portfolio_result.positions[1].ticker = Tickers[1]
    /\ portfolio_result.positions[1].quantity = R(5)

(***************************************************************************)
(* C15 - Portfolio.get_current_positions returns normally with all the     *)
(* positions of the ledger, and a position whose ticker has no price in    *)
(* the result of the batch lookup is valued at its cost basis:             *)
(* current_price is the PRU, current_value is quantity x PRU, and the      *)
(* unrealized gain is 0 and 0%.                                            *)
(***************************************************************************)
C15_CostBasisFallback ==
    PortfolioCalled("Portfolio.get_current_positions") =>
        /\ ~portfolio_result.raised
        /\ LET positions == portfolio_result.positions
               lookup == portfolio_call.lookup
           IN  /\ TickersOf(positions) =
                     TickersOf(db_get_current_positions(transactions_table))
               /\ \A k \in 1..Len(positions) :
                     (lookup.raised \/ positions[k].ticker \notin DOMAIN lookup.prices) =>
                        /\ positions[k].current_price = positions[k].average_buy_price
                        /\ positions[k].current_value =
                              RMul(positions[k].quantity, positions[k].average_buy_price)
                        /\ positions[k].unrealized_pnl = Zero
                        /\ positions[k].unrealized_pnl_percent = Zero

(***************************************************************************)
(* C16 - Portfolio.get_current_positions returns one valued position per   *)
(* position of the ledger whatever the batch lookup returns and also when  *)
(* it raises, and every position is valued as it would be were its ticker  *)
(* the only one of the portfolio: what the lookups give for the other      *)
(* tickers neither removes it nor changes its values.                      *)
(***************************************************************************)
ValuedAlone(ticker) ==
    LET call == portfolio_call
        own == {ticker}
        lookup == [raised |-> call.lookup.raised,
                   prices |-> [t \in own \cap DOMAIN call.lookup.prices |->
                                  call.lookup.prices[t]]]
        market_cache == [t \in own \cap DOMAIN call.market_cache |-> call.market_cache[t]]
    IN  get_current_positions(RowsOfTicker(transactions_table, ticker), lookup,
                              market_cache, own \cap call.db_faults)

C16_EachTickerValuedAlone ==
    PortfolioCalled("Portfolio.get_current_positions") =>
        /\ ~portfolio_result.raised
        /\ LET positions == portfolio_result.positions
           IN  /\ TickersOf(positions) =
                     TickersOf(db_get_current_positions(transactions_table))
               /\ \A k \in 1..Len(positions) :
                     LET alone == ValuedAlone(positions[k].ticker)
                     IN  ~alone.raised /\ alone.positions = <<positions[k]>>

(***************************************************************************)
(* C18 - zero guard.  Position.update_current_values and                   *)
(* calculate_unrealized_pnl return a percentage of 0 for a position with   *)
(* total_invested <= 0; calculate_realized_pv_fifo returns                 *)
(* gain_loss_percent 0 when the cost consumed is 0 and average_buy_price 0 *)
(* when no quantity is consumed, as with an empty list of lots.  None of   *)
(* the three raises.                                                       *)
(***************************************************************************)
C18_ZeroGuard ==
    /\ PortfolioCalled("update_current_values") =>
          /\ "exception" \notin DOMAIN portfolio_result
          /\ RLe(portfolio_call.position.total_invested, Zero) =>
                portfolio_result.unrealized_pnl_percent = Zero
    /\ PortfolioCalled("calculate_unrealized_pnl") =>
          /\ ~portfolio_result.raised
          /\ RLe(portfolio_call.position.total_invested, Zero) =>
                portfolio_result.pnl_percent = Zero
    /\ PortfolioCalled("calculate_realized_pv_fifo") =>
          LET lots_given == AsLots(portfolio_call.buy_transactions)
              sold == portfolio_call.sell_transaction.quantity
              cost == ConsumedCost(lots_given, sold, Len(lots_given))
              qty == ConsumedQuantity(lots_given, sold, Len(lots_given))
          IN  /\ "exception" \notin DOMAIN portfolio_result
              /\ cost = Zero => portfolio_result.gain_loss_percent = Zero
              /\ qty = Zero => portfolio_result.average_buy_price = Zero
              /\ lots_given = <<>> =>
                    /\ portfolio_result.quantity_sold = Zero
                    /\ portfolio_result.gain_loss_percent = Zero
                    /\ portfolio_result.average_buy_price = Zero

\* a position of 5 shares with nothing invested has been valued at a price above
\* 0: the gain is the whole value and the percentage is 0
C18_Witness ==
    /\ PortfolioCalled("update_current_values")
    /\ portfolio_call.position.total_invested = Zero
    /\ RLt(Zero, portfolio_call.position.quantity)
    /\ RLt(Zero, portfolio_call.current_price)
    /\ RLt(Zero, portfolio_result.unrealized_pnl)
    /\ portfolio_result.unrealized_pnl_percent = Zero

(***************************************************************************)
(* C30 - cost conservation.  After every transaction of                    *)
(* calculate_all_realized_pv the cost of the open lots plus the cost       *)
(* consumed by the results so far (average_buy_price x quantity_sold of    *)
(* each) is the total_cost of all BUYs processed so far: a lot split over  *)
(* several SELLs gives each its share and keeps the rest.                  *)
(***************************************************************************)
ConsumedCosts(s) ==
    [i \in 1..Len(s) |-> RMul(s[i].average_buy_price, s[i].quantity_sold)]

C30_CostConservation ==
    job = "all_realized_pv" =>
        RAdd(RSum(TotalCosts(remaining_buys)), RSum(ConsumedCosts(realized_pvs)))
            = RSum(TotalCosts(BuysProcessed))

\* one lot has served two SELLs and is still open
C30_Witness ==
    /\ job = "all_realized_pv"
    /\ idx = 3
    /\ IsBuy(sorted_tx[1]) /\ IsSell(sorted_tx[2]) /\ IsSell(sorted_tx[3])
    /\ Len(realized_pvs) = 2
    /\ realized_pvs[1].quantity_sold = sorted_tx[2].quantity
    /\ realized_pvs[2].quantity_sold = sorted_tx[3].quantity
    /\ Len(remaining_buys) = 1
    /\ RLt(remaining_buys[1].total_cost, sorted_tx[1].total_cost)

(***************************************************************************)
(* C26 - lot lifecycle.  In both replays a BUY appends one lot behind the  *)
(* open ones and changes none of them; a SELL leaves the open lots from    *)
(* some lot on, in the same order, none with more quantity or more cost    *)
(* than it had, so a lot never grows and a lot removed does not come back. *)
(* Every open lot has quantity > 0 and cost >= 0.                          *)
(***************************************************************************)
C26_LotLifecycle ==
    [][ ((InCalculatorReplay \/ InLedgerReplay) /\ idx < Len(sorted_tx) /\ idx' = idx + 1) =>
        LET tx == sorted_tx[idx + 1]
            L == OpenLots
            Lp == IF InLedgerReplay THEN lots' ELSE AsLots(remaining_buys')
            removed == Len(L) - Len(Lp)
        IN  /\ \A j \in 1..Len(Lp) : RLt(Zero, Lp[j].quantity) /\ RLe(Zero, Lp[j].cost)
            /\ IsBuy(tx) => Lp = Append(L, AsLot(tx))
            /\ IsSell(tx) =>
                  /\ removed >= 0
                  /\ \A j \in 1..Len(Lp) :
                        /\ RLe(Lp[j].quantity, L[removed + j].quantity)
                        /\ RLe(Lp[j].cost, L[removed + j].cost)
                        /\ InCalculatorReplay =>
                              remaining_buys'[j].id = remaining_buys[removed + j].id
      ]_vars

\* a SELL has shrunk the first lot and a later BUY has been appended behind it
C26_Witness ==
    /\ InLedgerReplay
    /\ idx = 3
    /\ IsBuy(sorted_tx[1]) /\ IsSell(sorted_tx[2]) /\ IsBuy(sorted_tx[3])
    /\ Len(lots) = 2
    /\ RLt(Zero, lots[1].quantity)
    /\ RLt(lots[1].quantity, sorted_tx[1].quantity)
    /\ RLt(lots[1].cost, sorted_tx[1].total_cost)
    /\ lots[2] = AsLot(sorted_tx[3])

(***************************************************************************)
(* The two replays of the calculator as functions of the list passed.      *)
(* Both are static methods: a caller can pass the transactions of a ticker *)
(* in any order, for instance as GET_ALL_TRANSACTIONS delivers them        *)
(* (transaction_date DESC, id DESC).                                       *)
(***************************************************************************)
\* the loop of calculate_all_realized_pv over the first k sorted transactions
RECURSIVE AllRealizedPvLoop(_, _)
AllRealizedPvLoop(sorted_transactions, k) ==
    IF k = 0 THEN [remaining_buys |-> <<>>, realized_pvs |-> <<>>]
    ELSE LET before == AllRealizedPvLoop(sorted_transactions, k - 1)
             tx == sorted_transactions[k]
         IN  IF tx.transaction_type = "ACHAT"
             THEN [remaining_buys |-> Append(before.remaining_buys, tx),
                   realized_pvs |-> before.realized_pvs]
             ELSE [remaining_buys |->
                       _update_remaining_buys(before.remaining_buys, tx.quantity),
                   realized_pvs |->
                       Append(before.realized_pvs,
                              calculate_realized_pv_fifo(before.remaining_buys, tx))]

calculate_all_realized_pv(transactions) ==
    LET sorted_transactions == SortedByDate(transactions)
    IN  AllRealizedPvLoop(sorted_transactions, Len(sorted_transactions)).realized_pvs

\* the loop of calculate_average_buy_price over the first k sorted transactions
RECURSIVE AverageBuyPriceLoop(_, _)
AverageBuyPriceLoop(sorted_transactions, k) ==
    IF k = 0 THEN <<>>
    ELSE LET before == AverageBuyPriceLoop(sorted_transactions, k - 1)
             tx == sorted_transactions[k]
         IN  IF tx.transaction_type = "ACHAT"
             THEN Append(before, tx)
             ELSE _update_remaining_buys(before, tx.quantity)

calculate_average_buy_price(transactions) ==
    LET sorted_transactions == SortedByDate(transactions)
        left == AverageBuyPriceLoop(sorted_transactions, Len(sorted_transactions))
        total_cost == RSum(TotalCosts(left))
        total_quantity == RSum(Quantities(left))
    IN  IF RLe(total_quantity, Zero) THEN Zero
        ELSE RDiv(total_cost, total_quantity)

\* the lists that hold the elements of s, each once
Orderings(s) ==
    LET n == Len(s)
        bijections == {f \in [1..n -> 1..n] : \A i, j \in 1..n : i # j => f[i] # f[j]}
    IN  {[i \in 1..n |-> s[f[i]]] : f \in bijections}

(***************************************************************************)
(* A caller of the calculator: it holds the transactions of the ticker as  *)
(* a list in some order and calls one of the two replays on it.  A         *)
(* behaviour ends with one call.                                           *)
(***************************************************************************)
CallAllRealizedPv ==
    /\ job = "idle"
    /\ result = None
    /\ \E passed \in Orderings(history) :
          result' = [call |-> "calculate_all_realized_pv", transactions |-> passed,
                     value |-> calculate_all_realized_pv(passed)]
    /\ UNCHANGED <<history, job, sorted_tx, idx, remaining_buys, realized_pvs, lots>>
    /\ UNCHANGED taxVars
    /\ UNCHANGED portfolioVars

CallAverageBuyPrice ==
    /\ job = "idle"
    /\ result = None
    /\ \E passed \in Orderings(history) :
          result' = [call |-> "calculate_average_buy_price", transactions |-> passed,
                     value |-> calculate_average_buy_price(passed)]
    /\ UNCHANGED <<history, job, sorted_tx, idx, remaining_buys, realized_pvs, lots>>
    /\ UNCHANGED taxVars
    /\ UNCHANGED portfolioVars

CalculatorNext ==
    \/ (result = None /\ AddTransaction)
    \/ CallAllRealizedPv
    \/ CallAverageBuyPrice

CalculatorSpec == Init /\ [][CalculatorNext]_vars

\* the last call was a call of the calculator on a list
CalculatorCalled(function) ==
    /\ result # None
    /\ result.call = function
    /\ "transactions" \in DOMAIN result

\* C25: the results of calculate_all_realized_pv and of
\* calculate_average_buy_price do not depend on the order of the list passed:
\* whatever the order, they are the results for the transactions taken by
\* date ascending and, within a day, by id ascending.
C25_OrderIndependent ==
    /\ CalculatorCalled("calculate_all_realized_pv") =>
           result.value =
               calculate_all_realized_pv(get_transactions_by_ticker(result.transactions))
    /\ CalculatorCalled("calculate_average_buy_price") =>
           result.value =
               calculate_average_buy_price(get_transactions_by_ticker(result.transactions))

C29_ComparisonsAgree ==
    (Returned("compare_pfu_vs_progressive") /\ RLt(Zero, tax_call.gross)) =>
        LET summary ==
                calculate_annual_tax_summary(tax_call.gross, Zero, Zero, tax_call.rate)
        IN  /\ ~summary.raised
            /\ summary.has_comparaison
            /\ (tax_result.best_option = "PFU")
                   <=> (summary.comparaison.meilleure_option = "PFU")

(***************************************************************************)
(* The constructor of Transaction called on its own.  The dataclass takes  *)
(* total_cost as a field of the call: 0 leaves it to __post_init__, any    *)
(* other number is stored as passed.  The second way a Transaction is made *)
(* is the copy _update_remaining_buys builds for a lot sold in part.       *)
(***************************************************************************)
ConstructorQuantities == {R(3), R(5), R(10), R(12)}
ConstructorPrices == {R(150), R(160)}
ConstructorTotalCosts == {Zero, R(801), R(1500), R(1501)}
ConstructorFees == {Zero, R(1)}

ConstructTransaction ==
    /\ job = "idle"
    /\ result = None
    /\ \E transaction_type \in {"ACHAT", "VENTE"}, quantity \in ConstructorQuantities,
          price_per_share \in ConstructorPrices, total_cost \in ConstructorTotalCosts,
          fees \in ConstructorFees :
          result' = [call |-> "Transaction",
                     value |-> Transaction(1, transaction_type, quantity, price_per_share,
                                           1, total_cost, fees)]
    /\ UNCHANGED <<history, job, sorted_tx, idx, remaining_buys, realized_pvs, lots>>
    /\ UNCHANGED taxVars
    /\ UNCHANGED portfolioVars

ReduceTransaction ==
    /\ job = "idle"
    /\ result # None
    /\ result.call = "Transaction"
    /\ result.value.transaction_type = "ACHAT"
    /\ \E quantity_sold \in ConstructorQuantities :
          /\ RLt(quantity_sold, result.value.quantity)
          /\ result' = [call |-> "_update_remaining_buys",
                        value |-> _update_remaining_buys(<<result.value>>, quantity_sold)[1]]
    /\ UNCHANGED <<history, job, sorted_tx, idx, remaining_buys, realized_pvs, lots>>
    /\ UNCHANGED taxVars
    /\ UNCHANGED portfolioVars

TransactionNext ==
    \/ ConstructTransaction
    \/ ReduceTransaction

TransactionSpec == Init /\ [][TransactionNext]_vars

\* total_cost is the amount derived from the other fields of the transaction
DerivedTotalCost(tx) ==
    IF tx.transaction_type = "ACHAT"
    THEN RAdd(RMul(tx.quantity, tx.price_per_share), tx.fees)
    ELSE RSub(RMul(tx.quantity, tx.price_per_share), tx.fees)

\* C22: every Transaction object, however it was constructed, has
\* total_cost = quantity x price_per_share + fees when it is a BUY and
\* quantity x price_per_share - fees when it is a SELL.
C22_TotalCostDerived ==
    (result # None /\ result.call \in {"Transaction", "_update_remaining_buys"}) =>
        result.value.total_cost = DerivedTotalCost(result.value)

(***************************************************************************)
(* The portfolio read ticker by ticker: orders of the two tickers are      *)
(* added, then either the positions are read from the database or the      *)
(* realized gains of one ticker are computed from its rows, taken with     *)
(* get_transactions_by_ticker.  The orders are those of the tests of the   *)
(* calculator, with two BUY prices.                                        *)
(***************************************************************************)
ReportOrders ==
    { <<"ACHAT", R(10), R(150)>>,
      <<"ACHAT", R(5), R(160)>>,
      <<"VENTE", R(3), R(140)>> }

ReportAddTransaction ==
    /\ portfolio_call = None
    /\ Len(transactions_table) < MaxRows
    /\ \E i \in 1..Len(Tickers), o \in ReportOrders, d \in Dates :
          transactions_table' = Append(transactions_table,
              PortfolioTransaction(Len(transactions_table) + 1, Tickers[i],
                                   o[1], o[2], o[3], d))
    /\ UNCHANGED <<portfolio_call, portfolio_result>>
    /\ UNCHANGED ledgerVars
    /\ UNCHANGED taxVars

TickerRealizedPv ==
    /\ portfolio_call = None
    /\ \E i \in 1..Len(Tickers) :
          LET transactions ==
                  get_transactions_by_ticker(RowsOfTicker(transactions_table, Tickers[i]))
          IN  /\ portfolio_call' = [op |-> "calculate_all_realized_pv",
                                    ticker |-> Tickers[i]]
              /\ portfolio_result' =
                    [raised |-> FALSE,
                     realized_pvs |-> calculate_all_realized_pv(transactions)]
    /\ UNCHANGED transactions_table
    /\ UNCHANGED ledgerVars
    /\ UNCHANGED taxVars

PositionsNext ==
    \/ ReportAddTransaction
    \/ DbGetCurrentPositions
    \/ TickerRealizedPv

PositionsSpec == Init /\ [][PositionsNext]_vars

BuyOnly(rows) == \A i \in 1..Len(rows) : IsBuy(rows[i])

\* C21: when the history holds only BUYs, calculate_all_realized_pv returns no
\* result for any ticker, and the positions read from the database are one per
\* ticker bought, with quantity = the sum of the quantities of its BUYs,
\* total_invested = the sum of their total_cost, and
\* average_buy_price = total_invested / quantity.
C21_BuyOnly ==
    BuyOnly(transactions_table) =>
        /\ PortfolioCalled("calculate_all_realized_pv") =>
               portfolio_result.realized_pvs = <<>>
        /\ PortfolioCalled("DatabaseManager.get_current_positions") =>
               LET positions == portfolio_result.positions IN
               /\ ~portfolio_result.raised
               /\ TickersOf(positions) =
                      SelectSeq(Tickers, LAMBDA t :
                          RowsOfTicker(transactions_table, t) # <<>>)
               /\ \A k \in 1..Len(positions) :
                      LET buys == RowsOfTicker(transactions_table, positions[k].ticker)
                      IN  /\ positions[k].quantity = RSum(Quantities(buys))
                          /\ positions[k].total_invested = RSum(TotalCosts(buys))
                          /\ positions[k].average_buy_price =
                                 RDiv(positions[k].total_invested, positions[k].quantity)

\* three BUYs, two of one ticker at different prices and one of the other, and
\* the positions read: two positions, the first made of two lots
C21_Witness ==
    /\ PortfolioCalled("DatabaseManager.get_current_positions")
    /\ Len(transactions_table) = 3
    /\ BuyOnly(transactions_table)
    /\ Len(portfolio_result.positions) = 2
    /\ portfolio_result.positions[1].quantity = R(15)
    /\ portfolio_result.positions[1].total_invested = R(2302)

(***************************************************************************)
(* The reporting paths.  Each of them lists the SELLs, and for each SELL   *)
(* takes as lots the BUYs of the ticker dated up to the day of the SELL    *)
(* out of get_all_transactions, and calls calculate_realized_pv_fifo.      *)
(* Dates are day numbers; the year of a date is YearOf.  The dividends     *)
(* table is not part of the model: the sums read from it are inputs.       *)
(***************************************************************************)
YearOf(transaction_date) == transaction_date \div 2

Years == {YearOf(d) : d \in Dates}

Reverse(s) == [i \in 1..Len(s) |-> s[Len(s) + 1 - i]]

\* DatabaseManager.get_all_transactions:
\* ORDER BY transaction_date DESC, id DESC
get_all_transactions(rows) == Reverse(get_transactions_by_ticker(rows))

\* DatabaseManager.get_transactions_by_type: ORDER BY transaction_date DESC.
\* The query leaves the order of the rows of one day open: the set of the
\* lists it can return.
get_transactions_by_type(rows, transaction_type) ==
    LET matching == SelectSeq(rows, LAMBDA r : r.transaction_type = transaction_type)
    IN  {s \in Orderings(matching) :
            \A i \in 1..(Len(s) - 1) : s[i].transaction_date >= s[i + 1].transaction_date}

\* the lots the two tabs pass for a SELL: the list comprehension, then
\* buys.sort(key=lambda x: x.transaction_date)
TabBuys(all_transactions, sell_tx) ==
    SortedByDate(SelectSeq(all_transactions, LAMBDA tx :
        /\ tx.ticker = sell_tx.ticker
        /\ tx.transaction_type = "ACHAT"
        /\ tx.transaction_date <= sell_tx.transaction_date))

\* the loop of the tabs over the SELLs: pnl_result of each iteration
SalesWithPnl(sell_transactions, all_transactions) ==
    [k \in 1..Len(sell_transactions) |->
        [transaction |-> sell_transactions[k],
         pnl |-> calculate_realized_pv_fifo(
                     TabBuys(all_transactions, sell_transactions[k]),
                     sell_transactions[k])]]

\* the two accumulators of the loops: the gains > 0, and the absolute values
\* of the others
PositiveGains(sales) ==
    [k \in 1..Len(sales) |->
        IF RLt(Zero, sales[k].pnl.total_gain_loss)
        THEN sales[k].pnl.total_gain_loss ELSE Zero]

AbsoluteLosses(sales) ==
    [k \in 1..Len(sales) |->
        IF RLt(Zero, sales[k].pnl.total_gain_loss)
        THEN Zero ELSE RAbs(sales[k].pnl.total_gain_loss)]

\* SalesHistoryTab.load_sales: what it hands to _update_stats and
\* _display_sales, or the message shown when no SELL is left
load_sales(sell_transactions, all_transactions, range) ==
    LET filtered ==
            IF range.given
            THEN SelectSeq(sell_transactions, LAMBDA tx :
                     /\ range.start_date <= tx.transaction_date
                     /\ tx.transaction_date <= range.end_date)
            ELSE sell_transactions
        sales_with_pnl == SalesWithPnl(filtered, all_transactions)
    IN  IF filtered = <<>>
        THEN [raised |-> FALSE, shown |-> "no_sales", sales_with_pnl |-> <<>>]
        ELSE [raised |-> FALSE, shown |-> "sales",
              sales_with_pnl |-> sales_with_pnl,
              total_pnl |-> RSum([k \in 1..Len(sales_with_pnl) |->
                                     sales_with_pnl[k].pnl.total_gain_loss]),
              total_gains |-> RSum(PositiveGains(sales_with_pnl)),
              total_losses |-> RSum(AbsoluteLosses(sales_with_pnl)),
              count |-> Len(filtered)]

\* TaxTab.load_tax_data: the SELLs of the year, their gains, and the summary
\* and IFU boxes displayed; an exception is caught and nothing is displayed
load_tax_data(sell_transactions, all_transactions, year, total_dividends_gross, tmi) ==
    LET sell_filtered ==
            SelectSeq(sell_transactions, LAMBDA tx : YearOf(tx.transaction_date) = year)
        sales_with_pnl == SalesWithPnl(sell_filtered, all_transactions)
        total_pv == RSum(PositiveGains(sales_with_pnl))
        total_mv == RSum(AbsoluteLosses(sales_with_pnl))
        summary == calculate_annual_tax_summary(total_dividends_gross, total_pv, total_mv, tmi)
    IN  IF summary.raised
        THEN [raised |-> FALSE, shown |-> "error", sales_with_pnl |-> sales_with_pnl]
        ELSE [raised |-> FALSE, shown |-> "tax_data",
              sales_with_pnl |-> sales_with_pnl,
              total_pv |-> total_pv, total_mv |-> total_mv,
              summary |-> summary,
              ifu_data |-> calculate_ifu_data(total_dividends_gross, Zero,
                                              total_pv, total_mv)]

\* Portfolio.get_annual_tax_report, the loop over the SELLs.  The lots are
\* passed in the order of get_all_transactions, and the gain is read from
\* result.net_gain_loss (pv here), an attribute the RealizedGainLoss returned
\* by calculate_realized_pv_fifo does or does not have.
RECURSIVE AnnualTaxReportLoop(_, _, _, _, _)
AnnualTaxReportLoop(sells, k, transactions, year, totals) ==
    IF k > Len(sells) THEN totals
    ELSE LET sell == sells[k] IN
         IF YearOf(sell.transaction_date) # year
         THEN AnnualTaxReportLoop(sells, k + 1, transactions, year, totals)
         ELSE LET buys == SelectSeq(transactions, LAMBDA t :
                              /\ t.ticker = sell.ticker
                              /\ t.transaction_type = "ACHAT"
                              /\ t.transaction_date <= sell.transaction_date)
                  pv == calculate_realized_pv_fifo(buys, sell)
              IN  IF "net_gain_loss" \notin DOMAIN pv
                  THEN AttributeError
                  ELSE AnnualTaxReportLoop(sells, k + 1, transactions, year,
                           IF RLt(Zero, pv.net_gain_loss)
                           THEN [totals EXCEPT !.total_capital_gains =
                                    RAdd(@, pv.net_gain_loss)]
                           ELSE [totals EXCEPT !.total_capital_losses =
                                    RAdd(@, RAbs(pv.net_gain_loss))])

get_annual_tax_report(rows, year, marginal_tax_rate, total_gross) ==
    LET transactions == get_all_transactions(rows)
        sells == SelectSeq(transactions, LAMBDA t : t.transaction_type = "VENTE")
        totals == AnnualTaxReportLoop(sells, 1, transactions, year,
                      [raised |-> FALSE, total_capital_gains |-> Zero,
                       total_capital_losses |-> Zero])
    IN  IF totals.raised THEN totals
        ELSE LET tax_summary ==
                     calculate_annual_tax_summary(total_gross,
                         totals.total_capital_gains, totals.total_capital_losses,
                         marginal_tax_rate)
             IN  IF tax_summary.raised THEN tax_summary
                 ELSE [raised |-> FALSE, year |-> year,
                       dividend_summary |-> [total_gross |-> total_gross],
                       capital_gains |-> totals.total_capital_gains,
                       capital_losses |-> totals.total_capital_losses,
                       tax_summary |-> tax_summary]

\* DatabaseManager.get_realized_gains_total
get_realized_gains_total == Zero

\* Portfolio.get_portfolio_snapshot, from what self.get_current_positions()
\* returned or raised (the date of the snapshot, the clock of the machine, is
\* left out)
get_portfolio_snapshot(current, dividend_income) ==
    IF current.raised THEN current
    ELSE
    LET positions == current.positions
        total_invested ==
            RSum([k \in 1..Len(positions) |-> positions[k].total_invested])
        current_value ==
            RSum([k \in 1..Len(positions) |-> positions[k].current_value])
        unrealized_gains ==
            RSum([k \in 1..Len(positions) |-> positions[k].unrealized_pnl])
        realized_gains == get_realized_gains_total
        total_gain_loss == RAdd(realized_gains, unrealized_gains)
        total_gain_loss_percent ==
            IF RLt(Zero, total_invested)
            THEN RMul(RDiv(total_gain_loss, total_invested), R(100))
            ELSE Zero
        positions_data ==
            [k \in 1..Len(positions) |->
                [ticker |-> positions[k].ticker,
                 quantity |-> positions[k].quantity,
                 pru |-> positions[k].average_buy_price,
                 current_price |-> positions[k].current_price,
                 current_value |-> positions[k].current_value,
                 gain_loss |-> positions[k].unrealized_pnl,
                 gain_loss_percent |-> positions[k].unrealized_pnl_percent,
                 weight |-> IF RLt(Zero, current_value)
                            THEN RMul(RDiv(positions[k].current_value, current_value),
                                      R(100))
                            ELSE Zero]]
    IN  [raised |-> FALSE,
         total_invested |-> total_invested,
         current_value |-> current_value,
         total_gain_loss |-> total_gain_loss,
         total_gain_loss_percent |-> total_gain_loss_percent,
         realized_gains |-> realized_gains,
         unrealized_gains |-> unrealized_gains,
         dividend_income |-> dividend_income,
         positions_count |-> Len(positions),
         positions |-> positions_data]

(***************************************************************************)
(* The reports asked of a portfolio: orders are added, then one report is  *)
(* made.                                                                   *)
(***************************************************************************)
DateRanges ==
    {[given |-> FALSE]} \cup
    {[given |-> TRUE, start_date |-> a, end_date |-> b] :
        a \in Dates, b \in Dates}

DividendTotals == {Zero, R(500)}

MarginalRates == {NoRate, R(30)}

LoadSales ==
    /\ portfolio_call = None
    /\ \E sell_transactions \in get_transactions_by_type(transactions_table, "VENTE"),
          range \in DateRanges :
          /\ portfolio_call' = [op |-> "SalesHistoryTab.load_sales", range |-> range]
          /\ portfolio_result' =
                load_sales(sell_transactions,
                           get_all_transactions(transactions_table), range)
    /\ UNCHANGED transactions_table
    /\ UNCHANGED ledgerVars
    /\ UNCHANGED taxVars

LoadTaxData ==
    /\ portfolio_call = None
    /\ \E sell_transactions \in get_transactions_by_type(transactions_table, "VENTE"),
          year \in Years, total_dividends_gross \in DividendTotals :
          /\ portfolio_call' = [op |-> "TaxTab.load_tax_data", year |-> year,
                                total_dividends_gross |-> total_dividends_gross]
          /\ portfolio_result' =
                load_tax_data(sell_transactions,
                              get_all_transactions(transactions_table),
                              year, total_dividends_gross, R(30))
    /\ UNCHANGED transactions_table
    /\ UNCHANGED ledgerVars
    /\ UNCHANGED taxVars

GetAnnualTaxReport ==
    /\ portfolio_call = None
    /\ \E year \in Years, marginal_tax_rate \in MarginalRates,
          total_gross \in DividendTotals :
          /\ portfolio_call' = [op |-> "Portfolio.get_annual_tax_report", year |-> year,
                                marginal_tax_rate |-> marginal_tax_rate,
                                total_gross |-> total_gross]
          /\ portfolio_result' =
                get_annual_tax_report(transactions_table, year, marginal_tax_rate,
                                      total_gross)
    /\ UNCHANGED transactions_table
    /\ UNCHANGED ledgerVars
    /\ UNCHANGED taxVars

GetPortfolioSnapshot ==
    /\ portfolio_call = None
    /\ LET held == HeldTickers(transactions_table) IN
       \E priced \in SUBSET held, raised \in BOOLEAN :
       \E cached \in SUBSET (held \ priced) :
       \E db_faults \in SUBSET (held \ (priced \cup cached)) :
       \E prices \in [priced -> MarketPrices], market_cache \in [cached -> CachedPrices],
          dividend_income \in DividendTotals :
          /\ raised => priced = {}
          /\ \E current \in {get_current_positions(transactions_table,
                                   [raised |-> raised, prices |-> prices],
                                   market_cache, db_faults)} :
             /\ portfolio_call' = [op |-> "Portfolio.get_portfolio_snapshot",
                                   lookup |-> [raised |-> raised, prices |-> prices],
                                   market_cache |-> market_cache,
                                   db_faults |-> db_faults]
             /\ portfolio_result' = get_portfolio_snapshot(current, dividend_income)
    /\ UNCHANGED transactions_table
    /\ UNCHANGED ledgerVars
    /\ UNCHANGED taxVars

ReportNext ==
    \/ ReportAddTransaction
    \/ LoadSales
    \/ LoadTaxData
    \/ GetAnnualTaxReport
    \/ GetPortfolioSnapshot

ReportSpec == Init /\ [][ReportNext]_vars

(***************************************************************************)
(* The reference of the claims on the reports: the chronological FIFO      *)
(* replay of the rows of a ticker, calculate_all_realized_pv on the list   *)
(* of get_transactions_by_ticker, which yields one result per SELL in the  *)
(* order of the SELLs.                                                     *)
(***************************************************************************)
ReplayOf(ticker) ==
    LET transactions ==
            get_transactions_by_ticker(RowsOfTicker(transactions_table, ticker))
    IN  [sells |-> SelectSeq(transactions, IsSell),
         realized_pvs |-> calculate_all_realized_pv(transactions)]

ReplayGain(sell_tx) ==
    LET replay == ReplayOf(sell_tx.ticker)
        k == CHOOSE k \in 1..Len(replay.sells) : replay.sells[k].id = sell_tx.id
    IN  replay.realized_pvs[k].total_gain_loss

\* the SELLs of a year, in table order, and the two sums of their replay gains
SellsOfYear(year) ==
    SelectSeq(transactions_table, LAMBDA r :
        IsSell(r) /\ YearOf(r.transaction_date) = year)

ReplayGainsOfYear(year) ==
    LET sells == SellsOfYear(year)
    IN  RSum([k \in 1..Len(sells) |->
                 IF RLt(Zero, ReplayGain(sells[k])) THEN ReplayGain(sells[k]) ELSE Zero])

ReplayLossesOfYear(year) ==
    LET sells == SellsOfYear(year)
    IN  RSum([k \in 1..Len(sells) |->
                 IF RLt(Zero, ReplayGain(sells[k]))
                 THEN Zero ELSE RAbs(ReplayGain(sells[k]))])

\* C23: in each reporting path the gain attributed to a SELL is the gain the
\* chronological FIFO replay gives for that SELL.  The two tabs: every
\* pnl_result carries the replay gain of its SELL.  get_annual_tax_report:
\* it does not fail on the gain of a SELL, and the totals it returns are the
\* sums of the replay gains of the SELLs of the year.
C23_ReportedGainIsReplayGain ==
    /\ (PortfolioCalled("SalesHistoryTab.load_sales")
            \/ PortfolioCalled("TaxTab.load_tax_data")) =>
           \A k \in 1..Len(portfolio_result.sales_with_pnl) :
               LET sale == portfolio_result.sales_with_pnl[k]
               IN  sale.pnl.total_gain_loss = ReplayGain(sale.transaction)
    /\ PortfolioCalled("Portfolio.get_annual_tax_report") =>
           IF portfolio_result.raised
           THEN portfolio_result.exception # "AttributeError"
           ELSE /\ portfolio_result.capital_gains =
                       ReplayGainsOfYear(portfolio_call.year)
                /\ portfolio_result.capital_losses =
                       ReplayLossesOfYear(portfolio_call.year)

\* C24: get_annual_tax_report(year) returns a report for every history of
\* transactions: capital_gains is the sum of the realized gains > 0 of the
\* SELLs of the year, capital_losses the sum of the absolute values of the
\* others, and tax_summary is calculate_annual_tax_summary of the two totals
\* and of the gross dividends of the year.  (The summary of a year with a
\* marginal rate and no dividend raises by itself, the subject of C5; the
\* calls looked at here are the others.)
C24_AnnualTaxReport ==
    (/\ PortfolioCalled("Portfolio.get_annual_tax_report")
     /\ \/ portfolio_call.marginal_tax_rate = NoRate
        \/ RLt(Zero, portfolio_call.total_gross)) =>
        /\ ~portfolio_result.raised
        /\ portfolio_result.capital_gains = ReplayGainsOfYear(portfolio_call.year)
        /\ portfolio_result.capital_losses = ReplayLossesOfYear(portfolio_call.year)
        /\ portfolio_result.tax_summary =
               calculate_annual_tax_summary(portfolio_call.total_gross,
                   portfolio_result.capital_gains, portfolio_result.capital_losses,
                   portfolio_call.marginal_tax_rate)

\* the sum of total_gain_loss over the SELLs of every ticker, by the replay
ReplayGainsTotal ==
    RSum([i \in 1..Len(Tickers) |->
             LET pvs == ReplayOf(Tickers[i]).realized_pvs
             IN  RSum([k \in 1..Len(pvs) |-> pvs[k].total_gain_loss])])

\* C27: the realized_gains of the snapshot is the sum of total_gain_loss over
\* all the SELLs of the history as the chronological FIFO replay computes
\* them, and total_gain_loss = realized_gains + unrealized_gains.
C27_SnapshotRealizedGains ==
    (PortfolioCalled("Portfolio.get_portfolio_snapshot") /\ ~portfolio_result.raised) =>
        /\ portfolio_result.realized_gains = ReplayGainsTotal
        /\ portfolio_result.total_gain_loss =
               RAdd(portfolio_result.realized_gains, portfolio_result.unrealized_gains)

====
